---- MODULE Spec2Model ----
(***************************************************************************)
(* ApplyBot: the scheduling core (SchedulerService), the streaming         *)
(* application pipeline (ApplicationService.bulk_apply_stream) and the     *)
(* single-vacancy application (ApplicationService.apply_to_single_vacancy) *)
(* as one state machine.  One action is one handler, or one stretch of a   *)
(* coroutine between two suspension points together with the bookkeeping   *)
(* that follows it.                                                        *)
(***************************************************************************)
EXTENDS Integers, Sequences, FiniteSets, TLC

\* ------------------------------------------------------------------ bounds
Users == {"u1"}

NumVacancies == 4

MaxRuns == 2

MaxRestarts == 1

MaxApps == 2

\* Store transactions that may fail in the whole lifecycle
MaxStoreFaults == 1

\* Store transactions that may fail during one run taken on its own
MaxPipelineFaults == 2

\* Sends of one request that are counted; further sends leave the count
MaxSends == 6

\* ------------------------------------------------------- program constants
max_consecutive_errors == 3

\* `max_missed_window = 14400  # 4 hours in seconds`
max_missed_window == 14400

\* `max_retries: int = 3` of HHClient._make_request
max_retries == 3

\* `timedelta(seconds=token.expires_in - 300)` of HHClient._ensure_token
expiry_buffer == 300

Vacancies == 1..NumVacancies

\* Exception classes that the handlers of the code tell apart.
\*   "Request"  httpx.RequestError        "SQL"   sqlalchemy SQLAlchemyError
\*   "Value"    ValueError                "HTTP"  fastapi HTTPException
\*   "Other"    any other exception (redis errors, KeyError, Exception(...))
ExcKinds == {"Request", "SQL", "Value", "HTTP", "Other"}

VARIABLES
    running_jobs, \* SchedulerService._running_jobs      [Users -> BOOLEAN]
    cancel_requested, \* SchedulerService._cancel_requested [Users -> BOOLEAN]
    schedUp,      \* SchedulerService._scheduler is not None
    startPc,      \* position of start(): "idle" or "cleaned" (after _cleanup_stale_runs)
    trigger,      \* the installed cron jobs auto_apply_<user>, per user
    spawned,      \* _run_auto_apply tasks created and not yet started, per user
    inflight,     \* _run_auto_apply invocations past the running-flag guard, per user
    lastCall,     \* outcome of the latest _run_auto_apply invocation per user
    job,          \* locals of the user's run (_run_auto_apply + bulk_apply_stream)
    stream,       \* what the consumer of bulk_apply_stream has observed, per user
    settings,     \* table scheduler_settings, per user
    runs,         \* table scheduler_run_history (row id = index)
    appHist,      \* table application_history: number of rows per vacancy
    cache,        \* ProcessedVacancyCache: vacancy ids present
    negotiations, \* the board: vacancies with an application of the candidate
    accepted,     \* vacancies whose submission by this system the board accepted
    catalogue,    \* the board: vacancies that a search can return
    stale,        \* run-history rows that were running when the process restarted
    boots,        \* number of process restarts so far
    budget,       \* number of runs that the environment asks for in all
    clock,        \* inside start(): what datetime.now(user_tz) and the
                  \* run-history query of the catch-up check return, per user
    http,         \* the HHClient of the run: token, clock and the request
                  \* that _make_request is working on
    filt,         \* ApplicationFilter: a request, a posting and the verdict
    manual,       \* the ManualRunResponse that the latest POST /run of the
                  \* user returned, with the max_applications it asked for
    bulk,         \* one request handled by bulk_apply and by bulk_apply_stream:
                  \* what the collaborators answer, and the results of each
    faults        \* number of store transactions that may still fail

vars == <<running_jobs, cancel_requested, schedUp, startPc, trigger, spawned,
          inflight,
          lastCall, job, stream, settings, runs, appHist, cache,
          negotiations, accepted, catalogue, stale, boots, budget,
          clock, http, filt, manual, bulk, faults>>

\* Everything but the client.
notHttp == <<running_jobs, cancel_requested, schedUp, startPc, trigger,
             spawned, inflight, lastCall, job, stream, settings, runs,
             appHist, cache, negotiations, accepted, catalogue, stale, boots,
             budget, clock, filt, manual, bulk, faults>>

\* Everything but the filter.
notFilt == <<running_jobs, cancel_requested, schedUp, startPc, trigger,
             spawned, inflight, lastCall, job, stream, settings, runs,
             appHist, cache, negotiations, accepted, catalogue, stale, boots,
             budget, clock, http, manual, bulk, faults>>

flags == <<running_jobs, cancel_requested>>
schedVars == <<schedUp, startPc, trigger>>
storeVars == <<settings, runs, appHist, cache>>
boardVars == <<negotiations, accepted, catalogue, budget>>

\* ---------------------------------------------------------------- helpers
\* settings.scheduler_default_{hour,minute,days,timezone}
DefaultSchedule ==
    [hour |-> 9, minute |-> 0,
     days |-> <<"mon", "tue", "wed", "thu", "fri">>,
     timezone |-> "Europe/Moscow"]

NoSettings == [exists |-> FALSE, enabled |-> FALSE, criteria |-> FALSE,
               position |-> "", schedule |-> DefaultSchedule,
               max |-> 1, last_run_status |-> "none",
               last_run_applications |-> 0, total_applications |-> 0]

IdleJob == [pc |-> "idle", max |-> 1, row |-> 0, vacs |-> <<>>,
            baseline |-> {}, total |-> 0, current |-> 0,
            success_count |-> 0, skipped_count |-> 0, error_count |-> 0,
            consecutive_errors |-> 0, should_apply |-> TRUE,
            sent |-> 0, skipped |-> 0, failed |-> 0]

NoEvent == [event |-> "none", current |-> 0, total |-> 0, counted |-> FALSE,
            success_count |-> 0, skipped_count |-> 0, error_count |-> 0,
            result |-> "none", reason |-> "none"]

NoStream == [first |-> "none", last |-> NoEvent, terminals |-> 0,
             raised |-> "none", phase |-> "none", failure |-> "none",
             exit |-> "none", row |-> 0]

TerminalEvents == {"complete", "cancelled", "error"}

\* The ascending sequence of the elements of a finite set of integers.
RECURSIVE SeqOf(_)
SeqOf(S) == IF S = {} THEN <<>>
            ELSE LET m == CHOOSE x \in S : \A y \in S : x <= y
                 IN <<m>> \o SeqOf(S \ {m})

Min(a, b) == IF a <= b THEN a ELSE b

\* An event that numbers the posting of its result from zero.
ProgressZeroBased(ev, j, res, counted) ==
    [event |-> ev,
     current |-> IF res # "none" THEN j.current - 1 ELSE j.current,
     total |-> j.total,
     counted |-> counted,
     success_count |-> IF counted THEN j.success_count ELSE 0,
     skipped_count |-> IF counted THEN j.skipped_count ELSE 0,
     error_count |-> IF counted THEN j.error_count ELSE 0,
     result |-> res, reason |-> IF res = "none" THEN "none" ELSE "response"]

\* BulkApplyProgress(event=..., ...) as built by bulk_apply_stream.
Progress(ev, j, res, counted) ==
    [event |-> ev, current |-> j.current, total |-> j.total,
     counted |-> counted,
     success_count |-> IF counted THEN j.success_count ELSE 0,
     skipped_count |-> IF counted THEN j.skipped_count ELSE 0,
     error_count |-> IF counted THEN j.error_count ELSE 0,
     result |-> res, reason |-> IF res = "none" THEN "none" ELSE "response"]

\* The consumer of the stream records one more event.
Observe(s, e) ==
    [s EXCEPT !.first = IF s.first = "none" THEN e.event ELSE s.first,
              !.last = e,
              !.terminals = IF e.event \in TerminalEvents
                            THEN Min(s.terminals + 1, 2) ELSE s.terminals]

\* A store transaction commits (TRUE) or raises SQLAlchemyError (FALSE).
StoreOutcomes == IF faults > 0 THEN BOOLEAN ELSE {TRUE}

Charge(ok) == faults' = IF ok THEN faults ELSE faults - 1

RunningRows(u) ==
    {i \in DOMAIN runs : runs[i].user = u /\ runs[i].status = "running"}

\* --------------------------------------------------------------- schedule
\* `days_map` of _schedule_user_job and _check_and_run_missed_job.
days_map == [mon |-> 0, tue |-> 1, wed |-> 2, thu |-> 3, fri |-> 4,
             sat |-> 5, sun |-> 6]

\* str.lower() on the day names that occur in the requests.
Lower(d) == IF d = "MON" THEN "mon" ELSE d

\* The elements of a sequence.
Range(q) == {q[i] : i \in DOMAIN q}

\* schedule_days is kept as the list of its comma-separated parts, each
\* already stripped.  The day numbers of the parts that days_map knows:
\* `scheduled_days` of _check_and_run_missed_job.
scheduled_days(days) ==
    {days_map[Lower(d)] : d \in {x \in Range(days) : Lower(x) \in DOMAIN days_map}}

\* `cron_days` of _schedule_user_job: the same numbers, or Monday to Friday
\* when no part names a day.
cron_days(days) ==
    IF scheduled_days(days) = {} THEN {0, 1, 2, 3, 4} ELSE scheduled_days(days)

\* The zones that ZoneInfo and CronTrigger can resolve, and those of them
\* that change their offset during the year.
KnownZones == {"Europe/Moscow", "America/New_York"}
DstZones == {"America/New_York"}

\* The ScheduleConfig values of the requests: any hour and minute that the
\* schema admits, any string for days and timezone.
Schedules ==
    {[hour |-> hm[1], minute |-> hm[2], days |-> d, timezone |-> z] :
        hm \in {<<9, 0>>, <<0, 30>>},
        d \in {<<"mon", "tue", "wed", "thu", "fri">>, <<"sun", "MON">>, <<"">>},
        z \in KnownZones \cup {"Mars/Phobos"}}

\* CronTrigger(hour, minute, day_of_week, timezone) for a settings row.
CronTrigger(sch) ==
    [hour |-> sch.hour, minute |-> sch.minute,
     day_of_week |-> cron_days(sch.days), timezone |-> sch.timezone]

\* _schedule_user_job for the row st of user u, given the installed jobs
\* tr of the user: nothing without a scheduler; otherwise the job of the
\* user's id is removed, and for an enabled row a new one is added unless
\* CronTrigger raises on the zone.
schedule_user_job(tr, st, up) ==
    IF ~up THEN tr
    ELSE IF ~st.enabled THEN {}
    ELSE IF st.schedule.timezone \notin KnownZones THEN {}
    ELSE {CronTrigger(st.schedule)}

\* A reading of the wall clock in a user's zone, datetime.now(user_tz):
\* the weekday, the hour and the minute, and whether the zone's clocks were
\* set back or forward by one hour between 01:00 and 03:00 of this day
\* (which happens on Sundays only).
NoReading == [weekday |-> 0, hour |-> 0, minute |-> 0, dst |-> "none"]

Readings ==
    {[weekday |-> 0, hour |-> hm[1], minute |-> hm[2], dst |-> "none"] :
        hm \in {<<8, 59>>, <<9, 0>>, <<9, 47>>, <<13, 0>>, <<13, 1>>,
                <<14, 0>>}}
    \cup
    {[weekday |-> 6, hour |-> hm[1], minute |-> hm[2], dst |-> d] :
        hm \in {<<0, 15>>, <<4, 15>>, <<4, 30>>, <<5, 15>>},
        d \in {"none", "back", "forward"}}

\* The two readings of the seed scenario: 09:47 and 14:00 on a Monday.
CoarseReadings ==
    {[weekday |-> 0, hour |-> hm[1], minute |-> hm[2], dst |-> "none"] :
        hm \in {<<9, 47>>, <<14, 0>>}}

\* Minutes since local midnight on the wall clock.
WallMinute(h, m) == h * 60 + m

\* The decision of _check_and_run_missed_job for a row with schedule sch,
\* the reading rd and today_runs (whether the query for rows started since
\* local midnight returned any): TRUE when the task is created.  The two
\* datetimes share their tzinfo, so `now < scheduled_time` and `now -
\* scheduled_time` compare and subtract wall-clock values.
check_and_run_missed_job(sch, rd, today_runs) ==
    LET now == WallMinute(rd.hour, rd.minute)
        scheduled_time == WallMinute(sch.hour, sch.minute)
        time_since_scheduled == (now - scheduled_time) * 60
    IN IF rd.weekday \notin scheduled_days(sch.days) THEN FALSE
       ELSE IF now < scheduled_time THEN FALSE
       ELSE IF today_runs THEN FALSE
       ELSE IF time_since_scheduled > max_missed_window THEN FALSE
       ELSE TRUE

\* The clock of a user: the reading `at` in the user's zone and the number
\* `midnight` of run-history rows that started before the user's local
\* midnight.  Outside start() nothing reads the clock.
NoClock == [at |-> NoReading, midnight |-> 0]

\* The query of _check_and_run_missed_job: rows of the user with
\* started_at >= today_start_utc; rows are numbered in the order in which
\* they started.
today_runs(u, rs, ck) ==
    {i \in DOMAIN rs : rs[i].user = u /\ i > ck.midnight}

\* -------------------------------------------------------------- HHClient
\* What one `await self.client.request(...)` ends in: a response with its
\* status, whether its body holds "ddos-guard" or "checking your browser",
\* and whether its body mentions a test; or an exception of httpx.
Answer(st, dd, ts, ex) == [status |-> st, ddos |-> dd, test |-> ts, exc |-> ex]

Responses ==
    {Answer(200, FALSE, FALSE, "none"), Answer(200, TRUE, FALSE, "none"),
     Answer(403, TRUE, FALSE, "none"), Answer(403, FALSE, FALSE, "none"),
     Answer(403, FALSE, TRUE, "none"), Answer(400, FALSE, FALSE, "none"),
     Answer(404, FALSE, FALSE, "none"), Answer(409, FALSE, FALSE, "none"),
     Answer(429, FALSE, FALSE, "none"), Answer(500, FALSE, FALSE, "none"),
     Answer(502, FALSE, FALSE, "none"),
     Answer(0, FALSE, FALSE, "ConnectError"),
     Answer(0, FALSE, FALSE, "ReadError")}

\* No response yet, and responses of more than one kind.
NoResponse == Answer(0, FALSE, FALSE, "none")
Mixed == Answer(0, FALSE, FALSE, "mixed")

\* How a call ends: it returns, or it raises an exception of class kind
\* with a status code and a message that mentions a test or does not.
Outcome(kind, st, ts) == [kind |-> kind, status |-> st, test |-> ts]
NoOutcome == Outcome("none", 0, FALSE)

\* The instants at which the clock of the client is read, in seconds.
Times == {3000, 3300, 3600, 3601}

\* The rows that the token table can hold: none, or the latest token.
NoToken == [obtained_at |-> 0, expires_in |-> 0]
Tokens == {[obtained_at |-> t, expires_in |-> 3600] : t \in {0} \cup Times}

\* Token.is_expired()
is_expired(tok, now) == now > tok.obtained_at + tok.expires_in

\* A client as __init__ leaves it, at instant now with the row stored.
NewClient(now, stored) ==
    [pc |-> "idle", endpoint |-> "none", retries |-> 0, sends |-> 0,
     counted |-> 0, odd |-> FALSE, only |-> NoResponse, outcome |-> NoOutcome,
     at |-> <<"none", 0>>, now |-> now, stored |-> stored, token_expires_at |-> 0]

\* A retry budget that allows one attempt more.
RetriesExhaustedLate(retries) == retries > max_retries + 1

\* A retry budget that is spent one attempt early.
RetriesExhaustedEarly(retries) == retries >= max_retries

\* `if retries > max_retries`
RetriesExhausted(retries) == retries > max_retries

\* One pass of the `while True` loop of _make_request on the answer r with
\* the current number of retries: the new number of retries and either
\* "continue" or the way the call ends.
Attempt(r, retries) ==
    LET again == [retries |-> retries + 1, next |-> "continue",
                  outcome |-> NoOutcome]
        ends(o) == [retries |-> retries + 1, next |-> "end", outcome |-> o]
        body == Outcome("HHAPIError", r.status, r.test)
    IN IF r.exc = "ReadError"
       THEN [retries |-> retries, next |-> "end",
             outcome |-> Outcome("RequestError", 0, FALSE)]
       ELSE IF r.exc = "ConnectError"
       THEN IF RetriesExhausted(retries + 1)
            THEN ends(Outcome("HHAPIError", 503, FALSE))
            ELSE again
       ELSE IF r.ddos \/ r.status = 403
       THEN IF RetriesExhausted(retries + 1)
            THEN ends(Outcome("HHAPIError", 429, FALSE))
            ELSE again
       ELSE IF r.status = 429
       THEN [retries |-> retries, next |-> "continue", outcome |-> NoOutcome]
       ELSE IF r.status \in {502, 503, 504}
       THEN IF RetriesExhausted(retries + 1)
            THEN ends(Outcome("HHAPIError", r.status, FALSE))
            ELSE again
       ELSE IF r.status >= 400
       THEN IF r.status < 500 /\ r.status \notin {429, 408, 502, 503, 504}
            THEN [retries |-> retries, next |-> "end", outcome |-> body]
            ELSE IF RetriesExhausted(retries + 1)
            THEN ends(body)
            ELSE again
       ELSE [retries |-> retries, next |-> "end",
             outcome |-> Outcome("return", r.status, FALSE)]

\* _make_request is called for an endpoint by the step of the run that is
\* at position `at`; the headers are set and the first sleep is over.
make_request(endpoint, at) ==
    /\ http.pc = "idle"
    /\ http' = [http EXCEPT !.pc = "token", !.endpoint = endpoint,
                            !.retries = 0, !.sends = 0, !.counted = 0,
                            !.odd = FALSE,
                            !.only = NoResponse, !.outcome = NoOutcome,
                            !.at = at]
    /\ UNCHANGED notHttp

\* The call is over with outcome o.
Ends(h, o) == [h EXCEPT !.pc = "idle", !.outcome = o]

\* _ensure_token: keep the cached token while the clock is before
\* _token_expires_at; otherwise read the latest row, raise 401 when there is
\* none or it is_expired(), and cache it with its expiry less the buffer.
\* get_latest is taken to return what its annotation says, Token | None.
EnsureToken ==
    /\ http.pc = "token"
    /\ IF http.token_expires_at # 0 /\ http.now < http.token_expires_at
       THEN http' = [http EXCEPT !.pc = "send"]
       ELSE \/ http' = Ends(http, Outcome("SQLAlchemyError", 0, FALSE))
            \/ http' =
                 IF http.stored = NoToken \/ is_expired(http.stored, http.now)
                 THEN Ends(http, Outcome("HTTPException", 401, FALSE))
                 ELSE [http EXCEPT
                         !.pc = "send",
                         !.token_expires_at =
                            http.stored.obtained_at
                               + (http.stored.expires_in - expiry_buffer)]
    /\ UNCHANGED notHttp

\* One pass of the loop: the request is sent and answered by r. `counted`
\* are the sends that were not answered with status 429; `odd` is the
\* parity of the sends, exact also when `sends` has stopped counting.
Send(r) ==
    /\ http.pc = "send"
    /\ LET a == Attempt(r, http.retries)
           h == [http EXCEPT
                   !.sends = Min(@ + 1, MaxSends),
                   !.counted = IF r.status = 429 THEN @
                                ELSE Min(@ + 1, MaxSends),
                   !.odd = ~@,
                   !.retries = a.retries,
                   !.only = IF @ = NoResponse \/ @ = r THEN r ELSE Mixed]
       IN http' = IF a.next = "end" THEN Ends(h, a.outcome) ELSE h
    /\ UNCHANGED notHttp

\* Time passes between two calls of the client.
Tick ==
    /\ http.pc = "idle"
    /\ \E t \in Times : /\ t > http.now
                        /\ http' = [http EXCEPT !.now = t]
    /\ UNCHANGED notHttp

\* TokenStorage.save after a new authorisation: the row of the new token
\* replaces the others.
save ==
    /\ http.pc = "idle"
    /\ http.now \in Times
    /\ http.stored # [obtained_at |-> http.now, expires_in |-> 3600]
    /\ http' = [http EXCEPT
                  !.stored = [obtained_at |-> http.now, expires_in |-> 3600]]
    /\ UNCHANGED notHttp

\* HHClient.apply around _make_request: HHAPIError becomes HTTPException
\* with the same status and a detail taken from a fixed table.
apply(o) ==
    IF o.kind = "HHAPIError" THEN Outcome("HTTPException", o.status, FALSE)
    ELSE o

\* The status of the ApplyResponse of apply_to_single_vacancy when the
\* submission ended with o and _record_application committed.
ApplyStatus(o) ==
    IF o.kind = "return" THEN "success"
    ELSE IF o.kind = "HTTPException" /\ o.status = 403 /\ o.test THEN "skipped"
    ELSE "error"

\* No client in use: the specification at hand does not look into requests.
NoClient == NewClient(0, NoToken)

\* --------------------------------------------------------- ApplicationFilter
\* A text is a sequence of words, and `in` between two texts is "occurs as
\* a run of consecutive words". None and the empty list are both the empty
\* sequence, None and 0 are both 0, a missing id is "": the code tests them
\* for truth only.

\* str.lower on a word.
LowerWord(w) ==
    CASE w = "Bad" -> "bad"
      [] w = "Company" -> "company"
      [] w = "Inc" -> "inc"
      [] w = "Acme" -> "acme"
      [] w = "Python" -> "python"
      [] w = "Senior" -> "senior"
      [] w = "Developer" -> "developer"
      [] w = "Remote" -> "remote"
      [] w = "Work" -> "work"
      [] w = "Full" -> "full"
      [] w = "Day" -> "day"
      [] OTHER -> w

\* str.lower on a text.
lower(text) == [i \in DOMAIN text |-> LowerWord(text[i])]

\* `part in text` for two texts.
Contains(part, text) ==
    \E i \in 0..(Len(text) - Len(part)) :
        SubSeq(text, i + 1, i + Len(part)) = part

\* `x in list`
InList(x, list) == \E i \in DOMAIN list : list[i] = x

\* `any(keyword in text for keyword in keywords)`
AnyIn(keywords, text) == \E k \in keywords : Contains(k, text)

\* The keywords of _is_remote_position, in Latin letters.
remote_keywords ==
    {<<"udalen">>, <<"remote">>, <<"distancion">>, <<"na", "domu">>}

remote_desc_keywords ==
    {<<"udalennaya", "rabota">>, <<"remote", "work">>,
     <<"rabota", "iz", "doma">>, <<"distancionnaya", "rabota">>}

\* The company exclusion of should_apply.
ExcludedCompany(request, vacancy) ==
    \E i \in DOMAIN request.exclude_companies :
        Contains(lower(request.exclude_companies[i]), lower(vacancy.employer))

_meets_salary_requirement(request, vacancy) ==
    IF ~vacancy.salary.present THEN TRUE
    ELSE vacancy.salary.from # 0 /\ vacancy.salary.from >= request.salary_min

_is_remote_position(vacancy) ==
    \/ AnyIn(remote_keywords, lower(vacancy.schedule.name))
    \/ AnyIn(remote_desc_keywords, lower(vacancy.description))

_matches_experience_level(request, vacancy) ==
    LET have == vacancy.experience
        want == request.experience_level
    IN IF have = "" THEN TRUE
       ELSE IF have = want THEN TRUE
       ELSE IF want = "noExperience" THEN have = "noExperience"
       ELSE IF want = "between1And3"
            THEN have \in {"noExperience", "between1And3"}
       ELSE IF want = "between3And6"
            THEN have \in {"noExperience", "between1And3", "between3And6"}
       ELSE want = "moreThan6"

\* Is some required skill neither a key skill nor in the description?
_check_required_skills(request, vacancy) ==
    LET key_skills == [i \in DOMAIN vacancy.key_skills |->
                          lower(vacancy.key_skills[i])]
    IN \E i \in DOMAIN request.required_skills :
          LET skill_lower == lower(request.required_skills[i])
          IN /\ ~InList(skill_lower, key_skills)
             /\ ~Contains(skill_lower, lower(vacancy.description))

\* Is some excluded keyword in the description or in the name?
_check_excluded_keywords(request, vacancy) ==
    \E i \in DOMAIN request.excluded_keywords :
        LET keyword_lower == lower(request.excluded_keywords[i])
        IN \/ Contains(keyword_lower, lower(vacancy.description))
           \/ Contains(keyword_lower, lower(vacancy.name))

_matches_employment_type(request, vacancy) ==
    IF vacancy.employment = "" THEN TRUE
    ELSE InList(vacancy.employment, request.employment_types)

_matches_preferred_schedule(request, vacancy) ==
    IF vacancy.schedule.id = "" THEN TRUE
    ELSE InList(vacancy.schedule.id, request.preferred_schedule)

\* Every path of the method returns True.
_within_commute_range(request, vacancy) == TRUE

Verdict(ok, reason) == [should_apply |-> ok, reason |-> reason]

\* ApplicationFilter.should_apply: the filters in the order of the method,
\* the first that fails gives the reason.
should_apply(request, vacancy) ==
    IF request.exclude_companies # <<>> /\ ExcludedCompany(request, vacancy)
    THEN Verdict(FALSE, "Excluded company")
    ELSE IF request.salary_min # 0
            /\ ~_meets_salary_requirement(request, vacancy)
    THEN Verdict(FALSE, "Salary below minimum requirement")
    ELSE IF request.remote_only /\ ~_is_remote_position(vacancy)
    THEN Verdict(FALSE, "Not a remote position")
    ELSE IF request.experience_level # ""
            /\ ~_matches_experience_level(request, vacancy)
    THEN Verdict(FALSE, "Experience level mismatch")
    ELSE IF request.required_skills # <<>>
            /\ _check_required_skills(request, vacancy)
    THEN Verdict(FALSE, "Missing required skills")
    ELSE IF request.excluded_keywords # <<>>
            /\ _check_excluded_keywords(request, vacancy)
    THEN Verdict(FALSE, "Found excluded keywords")
    ELSE IF request.employment_types # <<>>
            /\ ~_matches_employment_type(request, vacancy)
    THEN Verdict(FALSE, "Employment type mismatch")
    ELSE IF request.preferred_schedule # <<>>
            /\ ~_matches_preferred_schedule(request, vacancy)
    THEN Verdict(FALSE, "Schedule mismatch")
    ELSE IF request.max_commute_time # 0
            /\ ~_within_commute_range(request, vacancy)
    THEN Verdict(FALSE, "Commute time exceeds maximum")
    ELSE Verdict(TRUE, "Passed all filters")

NoVerdict == Verdict(FALSE, "none")

\* The criteria of a BulkApplyRequest: each one unset or set.
BulkApplyRequests ==
    [exclude_companies : {<<>>, << <<"Bad">> >>},
     salary_min : {0, 100},
     remote_only : BOOLEAN,
     experience_level : {"", "between1And3"},
     required_skills : {<<>>, << <<"Python">> >>},
     excluded_keywords : {<<>>, << <<"Senior">> >>},
     employment_types : {<<>>, <<"full">>},
     preferred_schedule : {<<>>, <<"remote">>},
     max_commute_time : {0, 30}]

\* Vacancies as the board describes them.
VacancyDicts ==
    [archived : BOOLEAN,
     name : {<<"Python", "Developer">>},
     employer : {<<"Acme">>, <<"Bad", "Company", "Inc">>},
     salary : {[present |-> FALSE, from |-> 0],
               [present |-> TRUE, from |-> 0],
               [present |-> TRUE, from |-> 150]},
     schedule : {[id |-> "fullDay", name |-> <<"Full", "Day">>],
                 [id |-> "remote", name |-> <<"Remote", "Work">>]},
     description : {<<>>, <<"Senior", "Python", "Developer">>},
     experience : {"", "noExperience", "between3And6"},
     key_skills : {<< <<"Python">> >>},
     employment : {"full", "part"}]

\* ApplicationFilter(request).should_apply(vacancy) is called.
ShouldApply ==
    /\ filt.verdict = NoVerdict
    /\ filt' = [filt EXCEPT
                  !.verdict = should_apply(filt.request, filt.vacancy)]
    /\ UNCHANGED notFilt

\* No POST /run has been answered.
NoManual == [status |-> "none", max_applications |-> 0]

\* No request has been handed to bulk_apply or bulk_apply_stream.
NoBulk == [pc |-> "none", vacancies |-> <<>>, already_applied_ids |-> {},
           rejected |-> {}, status |-> <<>>, max_applications |-> 0,
           cancel_after |-> 0, returned |-> FALSE, results |-> <<>>,
           streamed |-> FALSE, events |-> <<>>]

\* The default of ManualRunRequest.max_applications.
default_max_applications == 10

\* No filter in use.
NoFilter == [request |-> "none", vacancy |-> "none", verdict |-> NoVerdict]

\* ------------------------------------------------------------------- Init
\* A fresh process on an empty store.
Init ==
    /\ faults = MaxStoreFaults
    /\ running_jobs = [u \in Users |-> FALSE]
    /\ cancel_requested = [u \in Users |-> FALSE]
    /\ schedUp = FALSE
    /\ startPc = "idle"
    /\ trigger = [u \in Users |-> {}]
    /\ spawned = [u \in Users |-> 0]
    /\ inflight = [u \in Users |-> 0]
    /\ lastCall = [u \in Users |-> "none"]
    /\ job = [u \in Users |-> IdleJob]
    /\ stream = [u \in Users |-> NoStream]
    /\ settings = [u \in Users |-> NoSettings]
    /\ runs = <<>>
    /\ appHist = [v \in Vacancies |-> 0]
    /\ cache = {}
    /\ negotiations \in {{}, {1}}
    /\ accepted = {}
    /\ catalogue = {1}
    /\ stale = {}
    /\ boots = 0
    /\ budget = MaxRuns
    /\ clock = [u \in Users |-> NoClock]
    /\ http = NoClient
    /\ filt = NoFilter
    /\ manual = [u \in Users |-> NoManual]
    /\ bulk = NoBulk

\* ------------------------------------------------- SchedulerService: guard
\* A guard that lets every invocation through.
AlreadyRunningNoGuard(u) == FALSE

\* `if self._running_jobs.get(user_id)` at the top of _run_auto_apply.
AlreadyRunning(u) == running_jobs[u]

\* A re-entry branch that would run the finally clause on its way out.
ReentrySkipClearsFlags(u) ==
    /\ running_jobs' = [running_jobs EXCEPT ![u] = FALSE]
    /\ cancel_requested' = [cancel_requested EXCEPT ![u] = FALSE]
    /\ UNCHANGED <<inflight, job, stream, runs, settings>>

\* The re-entry branch of _run_auto_apply: log a warning and return.
ReentrySkip(u) ==
    UNCHANGED <<flags, inflight, job, stream, runs, settings>>

\* A finally clause that clears the running flag only.
FinallyClauseKeepsCancel(u) ==
    /\ running_jobs' = [running_jobs EXCEPT ![u] = FALSE]
    /\ UNCHANGED cancel_requested

\* The finally clause of _run_auto_apply.
FinallyClause(u) ==
    /\ running_jobs' = [running_jobs EXCEPT ![u] = FALSE]
    /\ cancel_requested' = [cancel_requested EXCEPT ![u] = FALSE]

\* _run_auto_apply returns or raises: locals are dropped, finally runs.
\* s2 is the consumer's view of the stream at that moment.
EndRun(u, s2, how) ==
    /\ job' = [job EXCEPT ![u] = IdleJob]
    /\ stream' = [stream EXCEPT ![u] = [s2 EXCEPT !.exit = how]]
    /\ inflight' = [inflight EXCEPT ![u] = IF @ > 0 THEN @ - 1 ELSE 0]
    /\ FinallyClause(u)

\* _record_run_failure(user_id, run_history, message); dbok = the
\* transaction commits, otherwise SQLAlchemyError is logged and swallowed.
\* rs is the run-history table as the run has left it so far.
record_run_failure(u, row, rs, dbok) ==
    IF dbok
    THEN /\ runs' = IF row # 0
                    THEN [rs EXCEPT ![row].status = "failed",
                                    ![row].error = TRUE]
                    ELSE rs
         /\ settings' = [settings EXCEPT ![u].last_run_status = "failed"]
    ELSE /\ runs' = rs
         /\ UNCHANGED settings

\* An exception of class kind reaches the except clauses of _run_auto_apply.
RunRaises(u, j, s2, rs, kind, dbok) ==
    /\ IF kind \in {"Request", "Value"}
       THEN record_run_failure(u, j.row, rs, dbok)
       ELSE /\ runs' = rs
            /\ UNCHANGED settings
    /\ EndRun(u, [s2 EXCEPT !.failure = IF @ = "none" THEN kind ELSE @],
              IF kind \in {"Request", "Value"} THEN "failed"
              ELSE IF kind = "SQL" THEN "dberror" ELSE "uncaught")

\* The tasks that may still be created: every one of them can get a row.
Sum(f) == LET RECURSIVE S(_)
              S(D) == IF D = {} THEN 0
                      ELSE LET d == CHOOSE x \in D : TRUE
                           IN f[d] + S(D \ {d})
          IN S(DOMAIN f)

SpawnOk ==
    Len(runs) + Sum(spawned) + Cardinality({u \in Users : job[u].pc = "load"})
        < budget

Spawn(u) == spawned' = [spawned EXCEPT ![u] = @ + 1]

\* --------------------------------------------- SchedulerService: handlers
\* A SchedulerSettingsRequest is a record of enabled, schedule,
\* max_applications_per_run and search_criteria, where an optional field is
\* the empty set when absent and the set of its value when given.
Given(opt) == opt # {}
The(opt) == CHOOSE x \in opt : TRUE

SettingsRequest(en, sch, mx, crit) ==
    [enabled |-> en, schedule |-> sch, max_applications_per_run |-> mx,
     search_criteria |-> crit]

\* update_user_settings followed by _schedule_user_job on the stored row.
update_user_settings(u, request) ==
    /\ settings' = [settings EXCEPT ![u] =
          IF ~settings[u].exists
          THEN [NoSettings EXCEPT
                   !.exists = TRUE,
                   !.enabled = request.enabled,
                   !.schedule = IF Given(request.schedule)
                                THEN The(request.schedule)
                                ELSE DefaultSchedule,
                   !.max = request.max_applications_per_run,
                   !.criteria = Given(request.search_criteria),
                   !.position = IF Given(request.search_criteria)
                                THEN The(request.search_criteria).position
                                ELSE ""]
          ELSE [@ EXCEPT
                   !.enabled = request.enabled,
                   !.schedule = IF Given(request.schedule)
                                THEN The(request.schedule) ELSE @,
                   !.max = request.max_applications_per_run,
                   !.criteria = IF Given(request.search_criteria)
                                THEN TRUE ELSE @,
                   !.position = IF Given(request.search_criteria)
                                THEN The(request.search_criteria).position
                                ELSE @]]
    /\ trigger' = [trigger EXCEPT
                      ![u] = schedule_user_job(@, settings'[u], schedUp)]
    /\ UNCHANGED <<flags, schedUp, startPc, spawned, inflight,
                   lastCall, job, stream, runs, appHist, cache, boardVars,
                   stale, boots, clock, http, filt, manual, bulk, faults>>

\* POST /scheduler/enable: rejected without a settings row or without
\* search criteria, otherwise the stored values are sent back with
\* enabled=True.
enable_scheduler(u) ==
    /\ settings[u].exists
    /\ settings[u].criteria
    /\ update_user_settings(u,
          SettingsRequest(TRUE, {settings[u].schedule}, settings[u].max,
                          {[position |-> settings[u].position]}))

\* POST /scheduler/disable: the stored values are sent back with
\* enabled=False.
disable_scheduler(u) ==
    /\ settings[u].exists
    /\ update_user_settings(u,
          SettingsRequest(FALSE, {settings[u].schedule}, settings[u].max,
                          IF settings[u].criteria
                          THEN {[position |-> settings[u].position]}
                          ELSE {}))

\* _cleanup_stale_runs; ok = the transaction commits.
cleanup_stale_runs(rs, ok) ==
    IF ok
    THEN [i \in DOMAIN rs |->
             IF rs[i].status = "running"
             THEN [rs[i] EXCEPT !.status = "interrupted", !.error = TRUE]
             ELSE rs[i]]
    ELSE rs

\* start(), first half: reconcile stale runs, bring the scheduler up.  R is
\* the set of clock readings that the environment may present to the
\* second half.
start(R) ==
    /\ ~schedUp
    /\ startPc = "idle"
    /\ \E ok \in StoreOutcomes : /\ runs' = cleanup_stale_runs(runs, ok)
                                /\ Charge(ok)
    /\ schedUp' = TRUE
    /\ startPc' = "cleaned"
    /\ \E env \in [Users -> R \X {0, Len(runs)}] :
          clock' = [u \in Users |->
                       [at |-> env[u][1], midnight |-> env[u][2]]]
    /\ UNCHANGED <<flags, trigger, spawned, inflight, lastCall, job,
                   stream, settings, appHist, cache, boardVars, stale, boots,
                   http, filt, manual, bulk>>

\* The enabled rows whose zone CronTrigger cannot resolve: the first of
\* them that the loop of _load_all_user_jobs meets ends it with an
\* exception.
BadZone(enabled) ==
    {u \in enabled : settings[u].schedule.timezone \notin KnownZones}

\* The sets of rows that the loop may have handled in full, and the row, if
\* any, at which it ended.
Handled(enabled) ==
    IF BadZone(enabled) = {} THEN {enabled}
    ELSE SUBSET (enabled \ BadZone(enabled))

Raising(enabled) ==
    IF BadZone(enabled) = {} THEN {{}}
    ELSE {{b} : b \in BadZone(enabled)}

\* start(), second half: _load_all_user_jobs with _schedule_user_job and
\* _check_and_run_missed_job for every enabled row.
load_all_user_jobs ==
    /\ startPc = "cleaned"
    /\ startPc' = "idle"
    /\ clock' = [u \in Users |-> NoClock]
    /\ LET enabled == {u \in Users : settings[u].exists /\ settings[u].enabled}
       IN \/ \E P \in Handled(enabled), B \in Raising(enabled) :
                LET C == {u \in P :
                             check_and_run_missed_job(
                                 settings[u].schedule, clock[u].at,
                                 today_runs(u, runs, clock[u]) # {})}
                IN /\ trigger' = [u \in Users |->
                                     IF u \in P \cup B
                                     THEN schedule_user_job(trigger[u],
                                                            settings[u], schedUp)
                                     ELSE trigger[u]]
                   /\ Len(runs) + Sum(spawned) + Cardinality(C)
                        + Cardinality({u \in Users : job[u].pc = "load"})
                        <= budget
                   /\ spawned' = [u \in Users |->
                                     IF u \in C THEN spawned[u] + 1
                                     ELSE spawned[u]]
             /\ UNCHANGED faults
          \/ /\ FALSE \in StoreOutcomes   \* the settings query raises
             /\ Charge(FALSE)
             /\ UNCHANGED <<trigger, spawned>>
          \/ UNCHANGED <<trigger, spawned, faults>>  \* scheduler_auto_start off
    /\ UNCHANGED <<flags, schedUp, inflight, lastCall, job, stream,
                   storeVars, boardVars, stale, boots, http, filt, manual, bulk>>

\* stop(): shut the trigger machinery down without waiting.
stop ==
    /\ schedUp
    /\ schedUp' = FALSE
    /\ trigger' = [u \in Users |-> {}]
    /\ UNCHANGED <<flags, startPc, spawned, inflight, lastCall, job,
                   stream, storeVars, boardVars, stale, boots, clock,
                   http, filt, manual, bulk, faults>>

\* The process dies and is started again: the singleton is constructed
\* afresh, every task is gone, the store and the board keep their contents.
ProcessRestart ==
    /\ boots < MaxRestarts
    /\ boots' = boots + 1
    /\ running_jobs' = [u \in Users |-> FALSE]
    /\ cancel_requested' = [u \in Users |-> FALSE]
    /\ schedUp' = FALSE
    /\ startPc' = "idle"
    /\ trigger' = [u \in Users |-> {}]
    /\ spawned' = [u \in Users |-> 0]
    /\ inflight' = [u \in Users |-> 0]
    /\ lastCall' = [u \in Users |-> "none"]
    /\ job' = [u \in Users |-> IdleJob]
    /\ stream' = [u \in Users |-> NoStream]
    /\ stale' = stale \cup {i \in DOMAIN runs : runs[i].status = "running"}
    /\ clock' = [u \in Users |-> NoClock]
    /\ UNCHANGED <<storeVars, boardVars, http, filt, manual, bulk, faults>>

\* The cron trigger of the user's job fires.
CronFire(u) ==
    /\ schedUp
    /\ trigger[u] # {}
    /\ SpawnOk
    /\ Spawn(u)
    /\ UNCHANGED <<flags, schedVars, inflight, lastCall, job, stream,
                   storeVars, boardVars, stale, boots, clock, http, filt, manual, bulk, faults>>

\* SchedulerService.trigger_manual_run(user_id, max_applications): the
\* "started" branch (the others change nothing). max_applications goes
\* into the message of the response and nowhere else.
trigger_manual_run(u, max_applications) ==
    /\ settings[u].exists
    /\ settings[u].criteria
    /\ ~running_jobs[u]
    /\ SpawnOk
    /\ Spawn(u)
    /\ UNCHANGED <<flags, schedVars, inflight, lastCall, job, stream,
                   storeVars, boardVars, stale, boots, clock, http, filt,
                   bulk, faults>>

\* The route POST /run with a ManualRunRequest whose max_applications is
\* mx: the response of the service goes back to the caller.
post_run(u, mx) ==
    /\ trigger_manual_run(u, mx)
    /\ manual' = [manual EXCEPT
                    ![u] = [status |-> "started", max_applications |-> mx]]

\* A call of the service whose response nobody keeps.
ManualRun(u) ==
    /\ trigger_manual_run(u, default_max_applications)
    /\ UNCHANGED manual

\* A cancel request that is taken whether or not a run is flagged.
cancel_running_jobUnguarded(u) ==
    /\ ~cancel_requested[u]
    /\ cancel_requested' = [cancel_requested EXCEPT ![u] = TRUE]
    /\ UNCHANGED <<running_jobs, schedVars, spawned, inflight, lastCall, job,
                   stream, storeVars, boardVars, stale, boots, clock, http,
                   filt, manual, bulk, faults>>

\* cancel_running_job: the branch that sets the flag; the other branch
\* returns False and changes nothing.
cancel_running_job(u) ==
    /\ running_jobs[u]
    /\ ~cancel_requested[u]
    /\ cancel_requested' = [cancel_requested EXCEPT ![u] = TRUE]
    /\ UNCHANGED <<running_jobs, schedVars, spawned, inflight, lastCall, job,
                   stream, storeVars, boardVars, stale, boots, clock, http, filt, manual, bulk, faults>>

\* ------------------------------------------------------- _run_auto_apply
\* A created task starts: the guard and the flag assignment, no suspension
\* point between them.
RunEnter(u) ==
    /\ spawned[u] > 0
    /\ spawned' = [spawned EXCEPT ![u] = @ - 1]
    /\ IF AlreadyRunning(u)
       THEN /\ ReentrySkip(u)
            /\ lastCall' = [lastCall EXCEPT ![u] = "skipped"]
       ELSE /\ running_jobs' = [running_jobs EXCEPT ![u] = TRUE]
            /\ inflight' = [inflight EXCEPT ![u] = @ + 1]
            /\ job' = [job EXCEPT ![u] = [IdleJob EXCEPT !.pc = "load"]]
            /\ stream' = [stream EXCEPT ![u] = NoStream]
            /\ lastCall' = [lastCall EXCEPT ![u] = "entered"]
            /\ UNCHANGED <<cancel_requested, runs, settings>>
    /\ UNCHANGED <<schedVars, appHist, cache, boardVars, stale, boots, clock, http, filt, manual, bulk, faults>>

NewRun(u) == [user |-> u, status |-> "running", applications_sent |-> 0,
              applications_skipped |-> 0, applications_failed |-> 0,
              error |-> FALSE]

\* Load the settings row, return early or create the run-history row.
RunLoad(u) ==
    /\ job[u].pc = "load"
    /\ LET s == settings[u]
       IN IF ~s.exists \/ ~s.enabled \/ ~s.criteria
          THEN /\ EndRun(u, stream[u], "early")
               /\ UNCHANGED <<runs, settings, faults>>
          ELSE \/ /\ Len(runs) < budget
                  /\ runs' = Append(runs, NewRun(u))
                  /\ job' = [job EXCEPT ![u] =
                               [@ EXCEPT !.pc = "start", !.max = s.max,
                                         !.row = Len(runs) + 1]]
                  /\ stream' = [stream EXCEPT ![u].row = Len(runs) + 1]
                  /\ UNCHANGED <<flags, inflight, settings, faults>>
               \/ /\ FALSE \in StoreOutcomes
                  /\ Charge(FALSE)
                  /\ RunRaises(u, job[u], stream[u], runs, "SQL", FALSE)
    /\ UNCHANGED <<schedVars, spawned, lastCall, appHist, cache, boardVars,
                   stale, boots, clock, http, filt, manual, bulk>>

\* ------------------------------------- _execute_bulk_apply_with_progress
\* The consumer's loop body: copy the counters of the event.
Deliver(j, e) ==
    IF e.counted
    THEN [j EXCEPT !.sent = e.success_count, !.skipped = e.skipped_count,
                   !.failed = e.error_count]
    ELSE j

\* _update_run_progress after an event that carries a result; dbok = the
\* transaction commits, otherwise the error is logged and the run goes on.
update_run_progress(rs, j, e, dbok) ==
    IF e.result # "none" /\ j.row # 0 /\ dbok
    THEN [rs EXCEPT ![j.row].applications_sent = j.sent,
                    ![j.row].applications_skipped = j.skipped,
                    ![j.row].applications_failed = j.failed]
    ELSE rs

\* bulk_apply_stream yields e with locals j and goes on at pc2.
Emit(u, j, s, e, dbok, pc2) ==
    /\ job' = [job EXCEPT ![u] = [Deliver(j, e) EXCEPT !.pc = pc2]]
    /\ stream' = [stream EXCEPT ![u] = Observe(s, e)]
    /\ runs' = update_run_progress(runs, Deliver(j, e), e, dbok)
    /\ UNCHANGED <<flags, inflight, settings>>

\* ---------------------------------------------------- bulk_apply_stream
\* The except clauses of bulk_apply_stream: three classes end the stream
\* with an error event, every other exception leaves the generator.
StreamCaught == {"Request", "SQL", "Value"}

StreamRaises(u, j, s, rs, kind, dbok) ==
    IF kind \in StreamCaught
    THEN LET e == [Progress("error", j, "none", TRUE) EXCEPT !.total = j.max]
         IN /\ job' = [job EXCEPT ![u] = [Deliver(j, e) EXCEPT !.pc = "finalize"]]
            /\ stream' = [stream EXCEPT ![u] =
                             Observe([s EXCEPT !.failure = kind], e)]
            /\ runs' = rs
            /\ UNCHANGED <<flags, inflight, settings>>
    ELSE RunRaises(u, j, [s EXCEPT !.raised = kind, !.phase = j.pc], rs,
                   kind, dbok)

\* A limit test that stops one success too late.
LimitReachedOffByOne(j) == j.success_count > j.max

\* `if success_count >= max_applications: break`
LimitReached(j) == j.success_count >= j.max

\* A breaker test that lets one more posting through.
BreakerOpenLate(j) == j.consecutive_errors > max_consecutive_errors

\* `if consecutive_errors >= max_consecutive_errors`
BreakerOpen(j) == j.consecutive_errors >= max_consecutive_errors

\* Counters that leave a skipped posting out.
CountDropsSkipped(j, status) ==
    IF status = "success"
    THEN [j EXCEPT !.success_count = @ + 1, !.consecutive_errors = 0]
    ELSE IF status = "error"
    THEN [j EXCEPT !.error_count = @ + 1, !.consecutive_errors = @ + 1]
    ELSE j

\* The counters after a result of the given status.
Count(j, status) ==
    IF status = "success"
    THEN [j EXCEPT !.success_count = @ + 1, !.consecutive_errors = 0]
    ELSE IF status = "error"
    THEN [j EXCEPT !.error_count = @ + 1, !.consecutive_errors = @ + 1]
    ELSE [j EXCEPT !.skipped_count = @ + 1]

\* The latest row of the token store, as TokenStorage.get_latest and
\* Token.is_expired see it.
TokenStates == {"valid", "expired", "absent"}

\* HHClient._ensure_token of a client built for the run (no cached token):
\* `if not token or token.is_expired(): raise HTTPException(401)`.
ensure_token(tok) == IF tok = "valid" THEN "ok" ELSE "HTTP"

\* Building the collaborators and the request, the start event, then
\* get_applied_vacancy_ids (the board's set, or the empty set on HHAPIError).
Baseline(u) ==
    /\ job[u].pc = "start"
    /\ LET j == job[u]
           s1 == Observe(stream[u], [Progress("start", j, "none", FALSE)
                                        EXCEPT !.total = j.max])
       IN \/ \E dbok \in StoreOutcomes :
                /\ RunRaises(u, j, stream[u], runs, "Value", dbok)
                /\ Charge(dbok)
          \/ \E b \in {negotiations, {}} :
                /\ job' = [job EXCEPT ![u] = [j EXCEPT !.baseline = b,
                                                       !.pc = "search"]]
                /\ stream' = [stream EXCEPT ![u] = s1]
                /\ UNCHANGED <<flags, inflight, runs, settings,
                               faults>>
          \/ \E kind \in {ensure_token(tok) : tok \in TokenStates}
                            \cup {"Request"} :
                /\ kind # "ok"
                /\ StreamRaises(u, j, s1, runs, kind, TRUE)
                /\ UNCHANGED faults
          \/ /\ FALSE \in StoreOutcomes      \* TokenStorage.get_latest raises
             /\ StreamRaises(u, j, s1, runs, "SQL", TRUE)
             /\ Charge(FALSE)
    /\ UNCHANGED <<schedVars, spawned, lastCall, appHist, cache, boardVars,
                   stale, boots, clock, http, filt, manual, bulk>>

\* The "searching" event, _search_vacancies_for_bulk (the first postings of
\* the catalogue that the cache does not hold), then "complete" or "found".
Search(u) ==
    /\ job[u].pc = "search"
    /\ LET j == job[u]
           s1 == Observe(stream[u], [Progress("progress", j, "none", FALSE)
                                        EXCEPT !.total = j.max])
       IN \/ \E kind \in {"HTTP", "Request", "Other"} :
                StreamRaises(u, j, s1, runs, kind, TRUE)
          \/ \E k \in 0..Cardinality(catalogue) :
                LET S == {v \in catalogue : v <= k} \ cache
                IN IF S = {}
                   THEN Emit(u, j, s1, Progress("complete", j, "none", TRUE),
                             TRUE, "finalize")
                   ELSE LET j2 == [j EXCEPT !.vacs = SeqOf(S),
                                            !.total = Min(Cardinality(S), j.max)]
                        IN Emit(u, j2, s1,
                                Progress("progress", j2, "none", FALSE),
                                TRUE, "loop")
    /\ UNCHANGED <<schedVars, spawned, lastCall, appHist, cache, boardVars,
                   stale, boots, clock, http, filt, manual, bulk, faults>>

\* A membership test that never finds the posting among the applied ones.
AlreadyAppliedNever(j, v) == FALSE

\* `if vacancy_id in already_applied_ids`
AlreadyApplied(j, v) == v \in j.baseline

\* The top of one iteration of `for vacancy in vacancies` up to the first
\* suspension point, or the complete event when the list is exhausted.
\* verdict is what filter_engine.should_apply returns for the posting; it is
\* kept in the locals also when the baseline test comes before it.
Checkpoint(u) ==
    /\ job[u].pc = "loop"
    /\ LET j == job[u]
           s == stream[u]
       IN IF j.current = Len(j.vacs)
          THEN /\ Emit(u, j, s, Progress("complete", j, "none", TRUE), TRUE,
                       "finalize")
               /\ UNCHANGED <<cache, faults>>
          ELSE IF cancel_requested[u]
          THEN /\ Emit(u, j, s, Progress("cancelled", j, "none", TRUE), TRUE,
                       "finalize")
               /\ UNCHANGED <<cache, faults>>
          ELSE IF LimitReached(j)
          THEN /\ Emit(u, j, s, Progress("complete", j, "none", TRUE), TRUE,
                       "finalize")
               /\ UNCHANGED <<cache, faults>>
          ELSE IF BreakerOpen(j)
          THEN /\ Emit(u, j, s, Progress("error", j, "none", TRUE), TRUE,
                       "finalize")
               /\ UNCHANGED <<cache, faults>>
          ELSE \E verdict \in BOOLEAN :
               LET j1 == [j EXCEPT !.current = @ + 1,
                                   !.should_apply = verdict]
                   v == j.vacs[j.current + 1]
                   j2 == Count(j1, "skipped")
                   e == Progress("progress", j2, "skipped", TRUE)
               IN IF AlreadyApplied(j, v)
                  THEN /\ \E dbok \in StoreOutcomes :
                             /\ Emit(u, j2, s,
                                     [e EXCEPT !.reason = "Already applied (HH.ru)"],
                                     dbok, "loop")
                             /\ Charge(dbok)
                       /\ UNCHANGED cache
                  ELSE IF verdict
                  THEN /\ job' = [job EXCEPT ![u] = [j1 EXCEPT !.pc = "apply"]]
                       /\ UNCHANGED <<flags, inflight, stream,
                                      runs, settings, cache, faults>>
                  ELSE LET f == [e EXCEPT !.reason = "Filtered"]
                       IN \E dbok \in StoreOutcomes :
                             /\ Charge(dbok)
                             /\ \/ /\ Emit(u, j2, s, f, dbok, "loop")
                                   /\ cache' = cache \cup {v}
                                \/ /\ StreamRaises(u,
                                          [Deliver(j2, f) EXCEPT !.pc = "cache"],
                                          Observe(s, f),
                                          update_run_progress(runs, Deliver(j2, f),
                                                              f, dbok),
                                          "Other", TRUE)
                                   /\ UNCHANGED cache
    /\ UNCHANGED <<schedVars, spawned, lastCall, appHist, boardVars, stale,
                   boots, clock, http, filt, manual, bulk>>

\* After apply_to_single_vacancy has returned status for vacancy v:
\* _cache_processed_vacancy, the counters, the progress event.
Conclude(u, j, v, status, cacheok, dbok) ==
    IF cacheok
    THEN LET j2 == Count(j, status)
         IN /\ Emit(u, j2, stream[u], Progress("progress", j2, status, TRUE),
                    dbok, "loop")
            /\ cache' = cache \cup {v}
    ELSE /\ StreamRaises(u, [j EXCEPT !.pc = "cache"], stream[u], runs,
                         "Other", TRUE)
         /\ UNCHANGED cache

\* ----------------------------------------------- apply_to_single_vacancy
\* What the part before the submission can end in, given the rows that
\* _has_already_applied finds (scalar_one_or_none raises on two rows).
PrepareOutcomes(v) ==
    IF appHist[v] >= 2 THEN {"error"}
    ELSE IF appHist[v] = 1 THEN {"skipped", "error"}
    ELSE {"ready", "skipped", "error", "Other"}

\* Validation, _has_already_applied, get_vacancy_details,
\* _can_apply_to_vacancy and _generate_application_content.
Prepare(u) ==
    /\ job[u].pc = "apply"
    /\ LET j == job[u]
           v == j.vacs[j.current]
       IN \E o \in PrepareOutcomes(v) :
             IF o = "ready"
             THEN /\ job' = [job EXCEPT ![u].pc = "submit"]
                  /\ UNCHANGED <<flags, inflight, stream, runs,
                                 settings, cache, faults>>
             ELSE IF o = "Other"
             THEN /\ StreamRaises(u, j, stream[u], runs, "Other", TRUE)
                  /\ UNCHANGED <<cache, faults>>
             ELSE \E cacheok \in BOOLEAN, dbok \in StoreOutcomes :
                     /\ Conclude(u, j, v, o, cacheok, dbok)
                     /\ Charge(cacheok => dbok)
    /\ UNCHANGED <<schedVars, spawned, lastCall, appHist, boardVars, stale,
                   boots, clock, http, filt, manual, bulk>>

\* hh_client.apply and _record_application, then the rest of the iteration.
\* fault: which store transaction of the step fails, if any.
Submit(u) ==
    /\ job[u].pc = "submit"
    /\ LET j == job[u]
           v == j.vacs[j.current]
           Faults == IF FALSE \in StoreOutcomes
                     THEN {"none", "record", "ledger"} ELSE {"none"}
       IN \/ \E fault \in Faults, cacheok \in BOOLEAN :
                /\ negotiations' = negotiations \cup {v}
                /\ accepted' = accepted \cup {v}
                /\ appHist' = IF fault # "record"
                              THEN [appHist EXCEPT ![v] = @ + 1]
                              ELSE appHist
                /\ Conclude(u, j, v,
                            IF fault # "record" THEN "success" ELSE "error",
                            cacheok, fault # "ledger")
                /\ Charge(fault = "none" \/ (fault = "ledger" /\ ~cacheok))
          \/ /\ \E o \in {"error", "skipped"}, cacheok \in BOOLEAN,
                   dbok \in StoreOutcomes :
                   /\ Conclude(u, j, v, o, cacheok, dbok)
                   /\ Charge(cacheok => dbok)
             /\ UNCHANGED <<negotiations, accepted, appHist>>
          \/ /\ StreamRaises(u, j, stream[u], runs, "Other", TRUE)
             /\ UNCHANGED <<negotiations, accepted, appHist, cache, faults>>
    /\ UNCHANGED <<schedVars, spawned, lastCall, catalogue, budget, stale,
                   boots, clock, http, filt, manual, bulk>>

\* ------------------------------------- _run_auto_apply after the stream
\* The final update of the row and of the settings, then finally.
Finalize(u) ==
    /\ job[u].pc = "finalize"
    /\ LET j == job[u]
       IN \/ /\ runs' = IF j.row # 0
                        THEN [runs EXCEPT ![j.row].status = "completed"]
                        ELSE runs
             /\ settings' = [settings EXCEPT
                   ![u].last_run_status = "completed",
                   ![u].last_run_applications = j.sent,
                   ![u].total_applications = @ + j.sent]
             /\ EndRun(u, stream[u], "completed")
             /\ UNCHANGED faults
          \/ /\ FALSE \in StoreOutcomes
             /\ Charge(FALSE)
             /\ RunRaises(u, j, stream[u], runs, "SQL", FALSE)
    /\ UNCHANGED <<schedVars, spawned, lastCall, appHist, cache, boardVars,
                   stale, boots, clock, http, filt, manual, bulk>>

\* ------------------------------------------------------------------ Next
RunStep(u) ==
    \/ RunEnter(u)
    \/ RunLoad(u)
    \/ Baseline(u)
    \/ Search(u)
    \/ Checkpoint(u)
    \/ Prepare(u)
    \/ Submit(u)
    \/ Finalize(u)

Next ==
    \/ \E u \in Users, en \in BOOLEAN,
          mx \in 1..Min(MaxApps, Cardinality(catalogue)),
          crit \in {{}, {[position |-> "Python"]}} :
          update_user_settings(u, SettingsRequest(en, {}, mx, crit))
    \/ start(CoarseReadings)
    \/ load_all_user_jobs
    \/ stop
    \/ ProcessRestart
    \/ \E u \in Users : CronFire(u)
    \/ \E u \in Users : ManualRun(u)
    \/ \E u \in Users : cancel_running_job(u)
    \/ \E u \in Users : RunStep(u)

Spec == Init /\ [][Next]_vars

\* ------------------------------------- one run of the pipeline on its own
\* One user whose settings are stored and enabled, the scheduler up with
\* the user's trigger installed, the whole catalogue on the board, and an
\* environment that asks for a single run.
InitPipeline ==
    /\ faults = MaxPipelineFaults
    /\ running_jobs = [u \in Users |-> FALSE]
    /\ cancel_requested = [u \in Users |-> FALSE]
    /\ schedUp = TRUE
    /\ startPc = "idle"
    /\ trigger = [u \in Users |->
                     IF u = "u1" THEN {CronTrigger(DefaultSchedule)} ELSE {}]
    /\ spawned = [u \in Users |-> 0]
    /\ inflight = [u \in Users |-> 0]
    /\ lastCall = [u \in Users |-> "none"]
    /\ job = [u \in Users |-> IdleJob]
    /\ stream = [u \in Users |-> NoStream]
    /\ \E mx \in 1..MaxApps :
          settings = [u \in Users |->
                         IF u = "u1"
                         THEN [NoSettings EXCEPT !.exists = TRUE,
                                  !.enabled = TRUE, !.criteria = TRUE,
                                  !.position = "Python", !.max = mx]
                         ELSE NoSettings]
    /\ runs = <<>>
    /\ appHist = [v \in Vacancies |-> 0]
    /\ cache = {}
    /\ negotiations \in {{}, {1}}
    /\ accepted = {}
    /\ catalogue = Vacancies
    /\ stale = {}
    /\ boots = 0
    /\ budget = 1
    /\ clock = [u \in Users |-> NoClock]
    /\ http = NoClient
    /\ filt = NoFilter
    /\ manual = [u \in Users |-> NoManual]
    /\ bulk = NoBulk

NextPipeline ==
    \/ \E u \in Users : CronFire(u)
    \/ \E u \in Users : ManualRun(u)
    \/ \E u \in Users : cancel_running_job(u)
    \/ \E u \in Users : RunStep(u)

SpecPipeline == InitPipeline /\ [][NextPipeline]_vars

\* ------------------------------------------------- the client on its own
\* The endpoints that a run calls: the paging of the applied postings and
\* the submission.
Endpoints == {"GET /negotiations", "POST /negotiations"}

\* A new client at the first instant; the token table is empty or holds a
\* token obtained at instant 0.  Nothing else moves.
InitClient ==
    /\ faults = 0
    /\ running_jobs = [u \in Users |-> FALSE]
    /\ cancel_requested = [u \in Users |-> FALSE]
    /\ schedUp = FALSE
    /\ startPc = "idle"
    /\ trigger = [u \in Users |-> {}]
    /\ spawned = [u \in Users |-> 0]
    /\ inflight = [u \in Users |-> 0]
    /\ lastCall = [u \in Users |-> "none"]
    /\ job = [u \in Users |-> IdleJob]
    /\ stream = [u \in Users |-> NoStream]
    /\ settings = [u \in Users |-> NoSettings]
    /\ runs = <<>>
    /\ appHist = [v \in Vacancies |-> 0]
    /\ cache = {}
    /\ negotiations = {}
    /\ accepted = {}
    /\ catalogue = {1}
    /\ stale = {}
    /\ boots = 0
    /\ budget = 0
    /\ clock = [u \in Users |-> NoClock]
    /\ \E stored \in {NoToken, [obtained_at |-> 0, expires_in |-> 3600]} :
          http = NewClient(3000, stored)
    /\ filt = NoFilter
    /\ manual = [u \in Users |-> NoManual]
    /\ bulk = NoBulk

NextClient ==
    \/ \E endpoint \in Endpoints : make_request(endpoint, <<"none", 0>>)
    \/ EnsureToken
    \/ \E r \in Responses : Send(r)
    \/ Tick
    \/ save

SpecClient == InitClient /\ [][NextClient]_vars

\* --------------------------------------------- a run and its client
\* The steps of the run that await a request to the board, and the request
\* that each of them makes first.
EndpointOf ==
    [start |-> "GET /negotiations", search |-> "GET /vacancies",
     apply |-> "GET /vacancies/{id}", submit |-> "POST /negotiations"]

BoardSteps == {"start", "search", "apply", "submit"}

\* The position of the run of user u.
Position(u) == <<job[u].pc, job[u].current>>

\* The run of user u reaches a request to the board and enters _make_request.
Request(u) ==
    /\ job[u].pc \in BoardSteps
    /\ http.at # Position(u)
    /\ make_request(EndpointOf[job[u].pc], Position(u))

\* The coroutine of the run goes on: it is not inside _make_request, and
\* the request of the step at hand, if the step has one, is over.
Resume(u) ==
    /\ http.pc = "idle"
    /\ job[u].pc \in BoardSteps => http.at = Position(u)
    /\ RunStep(u)

\* One user with enabled settings for one application, one posting on the
\* board, a valid token in the store, and an environment that asks for one
\* run.
InitRun ==
    /\ faults = 0
    /\ running_jobs = [u \in Users |-> FALSE]
    /\ cancel_requested = [u \in Users |-> FALSE]
    /\ schedUp = TRUE
    /\ startPc = "idle"
    /\ trigger = [u \in Users |->
                     IF u = "u1" THEN {CronTrigger(DefaultSchedule)} ELSE {}]
    /\ spawned = [u \in Users |-> 0]
    /\ inflight = [u \in Users |-> 0]
    /\ lastCall = [u \in Users |-> "none"]
    /\ job = [u \in Users |-> IdleJob]
    /\ stream = [u \in Users |-> NoStream]
    /\ settings = [u \in Users |->
                      IF u = "u1"
                      THEN [NoSettings EXCEPT !.exists = TRUE,
                               !.enabled = TRUE, !.criteria = TRUE,
                               !.position = "Python"]
                      ELSE NoSettings]
    /\ runs = <<>>
    /\ appHist = [v \in Vacancies |-> 0]
    /\ cache = {}
    /\ negotiations = {}
    /\ accepted = {}
    /\ catalogue = {1}
    /\ stale = {}
    /\ boots = 0
    /\ budget = 1
    /\ clock = [u \in Users |-> NoClock]
    /\ http = NewClient(3000, [obtained_at |-> 0, expires_in |-> 3600])
    /\ filt = NoFilter
    /\ manual = [u \in Users |-> NoManual]
    /\ bulk = NoBulk

NextRun ==
    \/ \E u \in Users : CronFire(u)
    \/ \E u \in Users : Request(u)
    \/ \E u \in Users : Resume(u)
    \/ EnsureToken
    \/ \E r \in Responses : Send(r)

\* The event loop runs every task that can go on, and the board answers
\* every request.
FairRun ==
    /\ \A u \in Users : WF_vars(Request(u)) /\ WF_vars(Resume(u))
    /\ WF_vars(EnsureToken)
    /\ WF_vars(\E r \in Responses : Send(r))

SpecRun == InitRun /\ [][NextRun]_vars /\ FairRun

\* ------------------------------------------------------ the filter alone
\* A request and a vacancy, and nothing else going on.
InitFilter ==
    /\ faults = 0
    /\ running_jobs = [u \in Users |-> FALSE]
    /\ cancel_requested = [u \in Users |-> FALSE]
    /\ schedUp = FALSE
    /\ startPc = "idle"
    /\ trigger = [u \in Users |-> {}]
    /\ spawned = [u \in Users |-> 0]
    /\ inflight = [u \in Users |-> 0]
    /\ lastCall = [u \in Users |-> "none"]
    /\ job = [u \in Users |-> IdleJob]
    /\ stream = [u \in Users |-> NoStream]
    /\ settings = [u \in Users |-> NoSettings]
    /\ runs = <<>>
    /\ appHist = [v \in Vacancies |-> 0]
    /\ cache = {}
    /\ negotiations = {}
    /\ accepted = {}
    /\ catalogue = {}
    /\ stale = {}
    /\ boots = 0
    /\ budget = 0
    /\ clock = [u \in Users |-> NoClock]
    /\ http = NoClient
    /\ \E request \in BulkApplyRequests, vacancy \in VacancyDicts :
          filt = [request |-> request, vacancy |-> vacancy,
                  verdict |-> NoVerdict]
    /\ manual = [u \in Users |-> NoManual]
    /\ bulk = NoBulk

NextFilter == ShouldApply

SpecFilter == InitFilter /\ [][NextFilter]_vars

\* ---------------------------------------------------------- manual runs
\* One user whose settings are stored with search criteria, enabled or
\* not, the whole catalogue on the board, no store faults, and a caller
\* who posts one manual run.
InitManual ==
    /\ faults = 0
    /\ running_jobs = [u \in Users |-> FALSE]
    /\ cancel_requested = [u \in Users |-> FALSE]
    /\ schedUp = TRUE
    /\ startPc = "idle"
    /\ trigger = [u \in Users |-> {}]
    /\ spawned = [u \in Users |-> 0]
    /\ inflight = [u \in Users |-> 0]
    /\ lastCall = [u \in Users |-> "none"]
    /\ job = [u \in Users |-> IdleJob]
    /\ stream = [u \in Users |-> NoStream]
    /\ \E mx \in 1..MaxApps, en \in BOOLEAN :
          settings = [u \in Users |->
                         IF u = "u1"
                         THEN [NoSettings EXCEPT !.exists = TRUE,
                                  !.enabled = en, !.criteria = TRUE,
                                  !.position = "Python", !.max = mx]
                         ELSE NoSettings]
    /\ runs = <<>>
    /\ appHist = [v \in Vacancies |-> 0]
    /\ cache = {}
    /\ negotiations = {}
    /\ accepted = {}
    /\ catalogue = Vacancies
    /\ stale = {}
    /\ boots = 0
    /\ budget = 1
    /\ clock = [u \in Users |-> NoClock]
    /\ http = NoClient
    /\ filt = NoFilter
    /\ manual = [u \in Users |-> NoManual]
    /\ bulk = NoBulk

NextManual ==
    \/ \E u \in Users, mx \in 1..MaxApps : post_run(u, mx)
    \/ \E u \in Users : RunStep(u)

\* The event loop runs the task that trigger_manual_run has created.
FairManual == \A u \in Users : WF_vars(RunStep(u))

SpecManual == InitManual /\ [][NextManual]_vars /\ FairManual

\* ------------------------------------------ the settings operations alone
\* The requests that the schema of SchedulerSettingsRequest admits.
Requests ==
    {SettingsRequest(en, sch, mx, crit) :
        en \in BOOLEAN,
        sch \in {{}} \cup {{x} : x \in Schedules},
        mx \in 1..MaxApps,
        crit \in {{}, {[position |-> ""]}, {[position |-> "Python"]}}}

\* The scheduler has been started on an empty store and stays up; the
\* environment asks for no run.
InitSchedule ==
    /\ faults = 0
    /\ running_jobs = [u \in Users |-> FALSE]
    /\ cancel_requested = [u \in Users |-> FALSE]
    /\ schedUp = TRUE
    /\ startPc = "idle"
    /\ trigger = [u \in Users |-> {}]
    /\ spawned = [u \in Users |-> 0]
    /\ inflight = [u \in Users |-> 0]
    /\ lastCall = [u \in Users |-> "none"]
    /\ job = [u \in Users |-> IdleJob]
    /\ stream = [u \in Users |-> NoStream]
    /\ settings = [u \in Users |-> NoSettings]
    /\ runs = <<>>
    /\ appHist = [v \in Vacancies |-> 0]
    /\ cache = {}
    /\ negotiations = {}
    /\ accepted = {}
    /\ catalogue = {1}
    /\ stale = {}
    /\ boots = 0
    /\ budget = 0
    /\ clock = [u \in Users |-> NoClock]
    /\ http = NoClient
    /\ filt = NoFilter
    /\ manual = [u \in Users |-> NoManual]
    /\ bulk = NoBulk

NextSchedule ==
    \/ \E u \in Users, request \in Requests : update_user_settings(u, request)
    \/ \E u \in Users : enable_scheduler(u)
    \/ \E u \in Users : disable_scheduler(u)

SpecSchedule == InitSchedule /\ [][NextSchedule]_vars

\* ------------------------------------------------------ start() on its own
\* A fresh process on a store that holds the enabled settings of one user,
\* with any of the schedules, and at most one finished run of that user.
InitCatchUp ==
    /\ faults = 0
    /\ running_jobs = [u \in Users |-> FALSE]
    /\ cancel_requested = [u \in Users |-> FALSE]
    /\ schedUp = FALSE
    /\ startPc = "idle"
    /\ trigger = [u \in Users |-> {}]
    /\ spawned = [u \in Users |-> 0]
    /\ inflight = [u \in Users |-> 0]
    /\ lastCall = [u \in Users |-> "none"]
    /\ job = [u \in Users |-> IdleJob]
    /\ stream = [u \in Users |-> NoStream]
    /\ \E sch \in Schedules :
          settings = [u \in Users |->
                         IF u = "u1"
                         THEN [NoSettings EXCEPT !.exists = TRUE,
                                  !.enabled = TRUE, !.criteria = TRUE,
                                  !.position = "Python", !.schedule = sch]
                         ELSE NoSettings]
    /\ runs \in {<<>>, <<[NewRun("u1") EXCEPT !.status = "completed"]>>}
    /\ appHist = [v \in Vacancies |-> 0]
    /\ cache = {}
    /\ negotiations = {}
    /\ accepted = {}
    /\ catalogue = {1}
    /\ stale = {}
    /\ boots = 0
    /\ budget = MaxRuns
    /\ clock = [u \in Users |-> NoClock]
    /\ http = NoClient
    /\ filt = NoFilter
    /\ manual = [u \in Users |-> NoManual]
    /\ bulk = NoBulk

NextCatchUp ==
    \/ start(Readings)
    \/ load_all_user_jobs

SpecCatchUp == InitCatchUp /\ [][NextCatchUp]_vars

\* ============================================================ properties
\* The stream of user u is over: the consumer has left its loop or the run
\* has exited after the stream had begun.
StreamOver(u) ==
    /\ stream[u].first # "none"
    /\ job[u].pc = "finalize" \/ stream[u].exit # "none"

\* C1: for every user at most one invocation of _run_auto_apply is past the
\* running-flag guard at any moment, whichever of the cron trigger, the
\* start-up catch-up and trigger_manual_run created the tasks.
C1_AtMostOnePipeline == \A u \in Users : inflight[u] <= 1

\* A second task of the user met the guard while the first was in flight.
C1_Witness ==
    \E u \in Users : /\ inflight[u] = 1
                     /\ lastCall[u] = "skipped"
                     /\ job[u].pc \notin {"idle", "load"}

\* C2: every emission sequence of bulk_apply_stream begins with start and
\* has exactly one terminal event (complete, cancelled or error), which is
\* its last event, whatever the collaborators return or raise.
C2_StartThenOneTerminal ==
    \A u \in Users :
        /\ stream[u].first \in {"none", "start"}
        /\ StreamOver(u) => /\ stream[u].last.event \in TerminalEvents
                            /\ stream[u].terminals = 1

\* C3: a failure of the vacancy fetch, the content generation or the
\* submission for one vacancy becomes a result with status error or skipped
\* and the pipeline goes on: no exception leaves the pipeline from there.
C3_PerVacancyFailureContained ==
    \A u \in Users :
        stream[u].phase \in {"apply", "submit"} => stream[u].raised = "none"

\* C4: every vacancy whose application the board accepted has exactly one
\* ApplicationHistory row, also when the store fails after the submission.
C4_ExactlyOneHistoryRow == \A v \in accepted : appHist[v] = 1

\* C5: a run never counts more than max_applications successes; once
\* success_count has reached max_applications no further vacancy is taken
\* up, so with max_applications = 1 the run halts after the first success.
C5_LimitRespected ==
    \A u \in Users :
        /\ job[u].success_count <= job[u].max
        /\ job[u].current <= Len(job[u].vacs)
        /\ job[u].pc \in {"apply", "submit"}
              => job[u].success_count < job[u].max
        /\ (job[u].pc = "loop" /\ job[u].success_count = job[u].max)
              => stream[u].last.result = "success"

\* A run limited to one application has stopped after its first success
\* with postings of the result list left over.
C5_Witness ==
    \E u \in Users : /\ job[u].pc = "finalize"
                     /\ job[u].max = 1
                     /\ job[u].success_count = 1
                     /\ stream[u].last.event = "complete"
                     /\ job[u].current < Len(job[u].vacs)

\* C6: once the pipeline has emitted cancelled the run attempts no further
\* submission, and when the run is over its history row has status
\* completed.
C6_CancelledRunCompleted ==
    \A u \in Users :
        stream[u].last.event = "cancelled"
           => \/ job[u].pc = "finalize"
              \/ /\ stream[u].exit # "none"
                 /\ stream[u].row # 0
                 /\ runs[stream[u].row].status = "completed"

\* C7: every exit of _run_auto_apply that follows a passed guard (return,
\* early return, recorded failure, database error, any other exception)
\* leaves the user's running flag and cancel flag false.
C7_FlagsClearedOnExit ==
    [][\A u \in Users :
          (inflight'[u] < inflight[u] /\ boots' = boots)
             => (~running_jobs'[u] /\ ~cancel_requested'[u])]_vars

\* A run has ended through an
\* exception that _run_auto_apply does not record, and both flags are false.
C7_Witness ==
    \E u \in Users : /\ stream[u].exit \in {"dberror", "uncaught"}
                     /\ inflight[u] = 0
                     /\ ~running_jobs[u]
                     /\ ~cancel_requested[u]

\* C8: an invocation of _run_auto_apply that finds the user's running flag
\* set changes nothing: no run-history row, no pipeline, both flags and the
\* run in flight as they were.
C8_ReentryIsNoOp ==
    [][\A u \in Users :
          (running_jobs[u] /\ spawned'[u] < spawned[u] /\ boots' = boots)
             => /\ runs' = runs
                /\ job' = job
                /\ stream' = stream
                /\ inflight' = inflight
                /\ running_jobs' = running_jobs
                /\ cancel_requested' = cancel_requested
                /\ settings' = settings]_vars

\* The latest invocation was turned away while the run in flight, with a
\* cancellation pending, went on.
C8_Witness ==
    \E u \in Users : /\ lastCall[u] = "skipped"
                     /\ running_jobs[u]
                     /\ cancel_requested[u]
                     /\ job[u].pc = "loop"

\* C9: among the rows written since the process came up, a user never has
\* more than one with status running, whatever way earlier runs ended.
C9_OneRunningRowPerUser ==
    \A u \in Users : Cardinality(RunningRows(u) \ stale) <= 1

\* C10: once start() has run after a restart, every row that was running
\* before the restart has status interrupted.
C10_StaleRowsInterrupted ==
    (boots > 0 /\ schedUp)
        => \A i \in stale : runs[i].status = "interrupted"

\* C11: start() sets to interrupted only rows that were running when the
\* process last went down; the row of a run that is in flight in the
\* present process is never set to interrupted.
C11_OnlyStaleRowsInterrupted ==
    /\ \A i \in DOMAIN runs : runs[i].status = "interrupted" => i \in stale
    /\ \A u \in Users :
          job[u].row # 0 => runs[job[u].row].status # "interrupted"

\* C12: a run that met a network error (httpx.RequestError) or a validation
\* error (ValueError) ends with its run-history row failed, an error
\* message on it, and last_run_status failed in the user's settings.
C12_FailureRecorded ==
    \A u \in Users :
        (/\ stream[u].exit # "none"
         /\ stream[u].failure \in {"Request", "Value"}
         /\ stream[u].row # 0)
           => /\ runs[stream[u].row].status = "failed"
              /\ runs[stream[u].row].error
              /\ settings[u].last_run_status = "failed"

\* The iteration of user u starts with three consecutive errors counted.
ThreeErrorsAtCheckpoint(u) ==
    /\ job[u].pc = "loop"
    /\ job[u].consecutive_errors >= max_consecutive_errors

\* C13 as stated: whenever three consecutive per-vacancy errors have occurred
\* in a pipeline, the pipeline attempts no further vacancy and halts with
\* the error event.
C13_BreakerAlwaysError ==
    [][\A u \in Users :
          (ThreeErrorsAtCheckpoint(u) /\ job'[u] # job[u])
             => /\ job'[u].pc = "finalize"
                /\ job'[u].current = job[u].current
                /\ stream'[u].last.event = "error"]_vars

\* C13, amended: after three consecutive per-vacancy errors the pipeline
\* attempts no further vacancy and ends its stream at the next iteration;
\* the terminal event is the error event when postings remain and no
\* cancellation has been requested, cancelled when one has, and complete
\* when the third error was on the last posting of the list.
C13_BreakerHalts ==
    [][\A u \in Users :
          (ThreeErrorsAtCheckpoint(u) /\ job'[u] # job[u])
             => /\ job'[u].pc = "finalize"
                /\ job'[u].current = job[u].current
                /\ stream'[u].last.result = "none"
                /\ stream'[u].last.event =
                      IF job[u].current = Len(job[u].vacs) THEN "complete"
                      ELSE IF cancel_requested[u] THEN "cancelled"
                      ELSE "error"]_vars

\* The breaker has ended a stream with postings left unattempted.
C13_Witness ==
    \E u \in Users :
        /\ job[u].pc = "finalize"
        /\ job[u].consecutive_errors = max_consecutive_errors
        /\ job[u].current < Len(job[u].vacs)
        /\ ~cancel_requested[u]
        /\ stream[u].last.event = "error"
        /\ stream[u].last.error_count = max_consecutive_errors

\* The stream of user u ended with the breaker's error event.
BreakerHalted(u) ==
    /\ stream[u].last.event = "error"
    /\ stream[u].last.error_count = max_consecutive_errors
    /\ stream[u].raised = "none"

\* C14: a scheduled run whose pipeline the circuit breaker halted after
\* three failed submissions ends with its run-history row failed and
\* applications_failed = 3 on it.
C14_BreakerRunFailed ==
    \A u \in Users :
        (/\ stream[u].exit # "none"
         /\ BreakerHalted(u)
         /\ stream[u].row # 0)
           => /\ runs[stream[u].row].status = "failed"
              /\ runs[stream[u].row].applications_failed
                    = max_consecutive_errors

\* The first board call of user u's run found no valid token on record.
TokenRejected(u) ==
    /\ stream[u].raised = ensure_token("expired")
    /\ stream[u].phase = "start"

\* C15: when the client holds no usable cached token and the latest stored
\* token is expired, a scheduled run makes no submission and its
\* run-history row is recorded as failed with an error message.
C15_ExpiredTokenRunFailed ==
    \A u \in Users :
        (/\ stream[u].exit # "none"
         /\ TokenRejected(u)
         /\ stream[u].row # 0)
           => /\ accepted = {}
              /\ runs[stream[u].row].status = "failed"
              /\ runs[stream[u].row].error

\* A step of stop(): the scheduler goes down within the same process.
StopStep == schedUp /\ ~schedUp' /\ boots' = boots

\* C19: after stop(), every pipeline that was in flight observes
\* cancellation through the shared cancel flag at its next checkpoint and
\* emits cancelled instead of processing further vacancies.  The cancel
\* flag is the pipeline's only view of cancellation (cancel_check reads
\* cancel_requested), so stop() has to leave it set for every user with a
\* run in flight.
C19_StopCancelsPipelines ==
    [][StopStep => \A u \in Users :
                      inflight[u] > 0 => cancel_requested'[u]]_vars

\* How many results the run-history row of user u's run is behind the
\* counters of the last event of the stream.
LedgerLag(u) ==
    LET e == stream[u].last
        r == runs[stream[u].row]
    IN (e.success_count + e.skipped_count + e.error_count)
          - (r.applications_sent + r.applications_skipped
                + r.applications_failed)

\* C20: during a scheduled run the run-history row carries the counters of
\* the last result-bearing event; a failed ledger write does not stop the
\* pipeline, and the stored counters are never behind the pipeline's by
\* more than the last vacancy's result, also once the run has ended.
C20_LedgerFollowsEvents ==
    \A u \in Users :
        stream[u].row # 0 =>
            LET e == stream[u].last
                r == runs[stream[u].row]
            IN /\ r.applications_sent <= e.success_count
               /\ r.applications_skipped <= e.skipped_count
               /\ r.applications_failed <= e.error_count
               /\ LedgerLag(u) <= 1

\* A step of the second half of start().
LoadStep == startPc = "cleaned" /\ startPc' = "idle" /\ boots' = boots

\* The minutes that have really passed since the scheduled instant of the
\* day of reading rd: the difference on the wall clock, one hour more when
\* the zone's clocks were set back in between and one hour less when they
\* were set forward.
Elapsed(sch, rd) ==
    LET wall == WallMinute(rd.hour, rd.minute)
                   - WallMinute(sch.hour, sch.minute)
        across == /\ sch.timezone \in DstZones
                  /\ WallMinute(sch.hour, sch.minute) < 60
                  /\ WallMinute(rd.hour, rd.minute) >= 180
    IN IF across /\ rd.dst = "back" THEN wall + 60
       ELSE IF across /\ rd.dst = "forward" THEN wall - 60
       ELSE wall

\* The condition of C16 for user u at the clock of the start.
DueCatchUp(u) ==
    /\ clock[u].at.weekday \in scheduled_days(settings[u].schedule.days)
    /\ Elapsed(settings[u].schedule, clock[u].at) >= 0
    /\ Elapsed(settings[u].schedule, clock[u].at) * 60 <= max_missed_window
    /\ today_runs(u, runs, clock[u]) = {}

\* C16: at startup, for each enabled user whose job the load installs, a
\* catch-up run is launched if and only if today (in the user's timezone) is
\* a scheduled day, the scheduled instant has already passed by at most 4
\* hours, and no run-history row of that user started since the user's
\* local midnight.
C16_CatchUpIffDue ==
    [][\A u \in Users :
          (/\ LoadStep
           /\ settings[u].exists /\ settings[u].enabled
           /\ trigger'[u] # {})
             => (spawned'[u] = spawned[u] + 1 <=> DueCatchUp(u))]_vars

\* C17: with the scheduler up, after any sequence of update_user_settings
\* calls each user has at most one installed trigger, and has one exactly
\* when the stored settings have enabled=true, with hour, minute, days and
\* timezone equal to those of the stored settings.
C17_TriggerMatchesSettings ==
    \A u \in Users :
        settings[u].exists =>
            /\ Cardinality(trigger[u]) <= 1
            /\ trigger[u] # {} <=> settings[u].enabled
            /\ \A t \in trigger[u] :
                  /\ t.hour = settings[u].schedule.hour
                  /\ t.minute = settings[u].schedule.minute
                  /\ t.day_of_week = scheduled_days(settings[u].schedule.days)
                  /\ t.timezone = settings[u].schedule.timezone

\* C18: a stored settings row with enabled=true has a non-null
\* search_criteria with a non-empty position, whichever of the
\* settings-update and enable operations produced it.
C18_EnabledHasCriteria ==
    \A u \in Users :
        (settings[u].exists /\ settings[u].enabled)
           => /\ settings[u].criteria
              /\ settings[u].position # ""

C22_ProgressMonotone ==
    [][\A u \in Users :
          LET a == stream[u].last
              b == stream'[u].last
          IN (a.event = "progress" /\ b.event = "progress" /\ b # a)
                => /\ b.success_count >= a.success_count
                   /\ b.skipped_count >= a.skipped_count
                   /\ b.error_count >= a.error_count
                   /\ b.current >= a.current
                   /\ b.result # "none" => b.current > a.current]_vars

\* Two results in a row have been reported, the second one after the first
\* had already been counted.
C22_Witness ==
    \E u \in Users :
        LET e == stream[u].last
        IN /\ e.event = "progress"
           /\ e.result # "none"
           /\ e.current >= 2
           /\ e.success_count + e.skipped_count + e.error_count >= 2

\* C23: a posting that is in the set of already-applied ids and that the
\* filter would reject as well is reported as skipped with the reason
\* "Already applied (HH.ru)": the membership test comes before the filter, so
\* the posting is neither reported as filtered nor put into the cache.
C23_BaselineBeforeFilter ==
    [][\A u \in Users :
          (/\ job[u].pc = "loop"
           /\ job'[u].current = job[u].current + 1
           /\ job[u].vacs[job[u].current + 1] \in job[u].baseline
           /\ ~job'[u].should_apply)
             => /\ stream'[u].last.event = "progress"
                /\ stream'[u].last.result = "skipped"
                /\ stream'[u].last.reason = "Already applied (HH.ru)"
                /\ stream'[u].last.skipped_count = job[u].skipped_count + 1
                /\ cache' = cache]_vars

\* A posting that the filter rejects has been skipped as already applied.
C23_Witness ==
    \E u \in Users :
        /\ job[u].pc = "loop"
        /\ ~job[u].should_apply
        /\ job[u].current > 0
        /\ job[u].vacs[job[u].current] \in job[u].baseline
        /\ stream[u].last.reason = "Already applied (HH.ru)"

\* C24: a request whose every send is answered by a DDoS-guard page is sent
\* four times in all, the first send and three retries, and then ends with
\* HHAPIError of status 429.
C24_DdosThreeRetries ==
    (http.only \in Responses /\ http.only.ddos)
       => /\ http.pc = "send" => http.sends <= max_retries
          /\ http.pc = "idle"
                => /\ http.sends = max_retries + 1
                   /\ http.outcome = Outcome("HHAPIError", 429, FALSE)

\* A request has been given up after nothing but DDoS-guard pages.
C24_Witness ==
    /\ http.pc = "idle"
    /\ http.only \in Responses
    /\ http.only.ddos
    /\ http.outcome.kind = "HHAPIError"

\* The responses of C25: status 400, 403, 404 or 409 with a body that is
\* not a DDoS-guard page.
ClientErrors ==
    {r \in Responses : r.status \in {400, 403, 404, 409} /\ ~r.ddos}

\* C25: a 400, 403, 404 or 409 response whose body is not a DDoS-guard page
\* is never retried: the call ends after the first such response with
\* HHAPIError of that status and the decoded body.
C25_ClientErrorNotRetried ==
    http.only \in ClientErrors
       => /\ http.pc = "idle"
          /\ http.sends = 1
          /\ http.outcome =
                Outcome("HHAPIError", http.only.status, http.only.test)

\* C26: the client never sends a request with a token that is within the
\* 300 s buffer of its expiry: whenever _ensure_token has let a call through
\* to its sends, the clock is before obtained_at + expires_in - 300 of the
\* token in the headers (a call that finds the latest stored token past that
\* instant ends with 401 instead).
C26_NoSendNearExpiry ==
    http.pc = "send" => http.now < http.token_expires_at

\* C28: a submission that the board answers with 403 and a body mentioning
\* a test yields an ApplyResponse of status skipped, not error.
C28_TestRequiredSkipped ==
    (/\ http.pc = "idle"
     /\ http.endpoint = "POST /negotiations"
     /\ http.only = Answer(403, FALSE, TRUE, "none"))
       => ApplyStatus(apply(http.outcome)) = "skipped"

\* C27: get_applied_vacancy_ids never raises: whatever goes wrong while it
\* pages /negotiations, it returns a set (the empty one on an error), so a
\* run that has emitted its start event goes on to the search.
C27_BaselineFailsOpen ==
    [][\A u \in Users :
          (/\ job[u].pc = "start"
           /\ stream[u].first = "none"
           /\ stream'[u].first = "start")
             => /\ job'[u].pc = "search"
                /\ stream'[u].raised = "none"
                /\ stream'[u].failure = "none"]_vars

\* C30: every run ends and clears its running flag, whatever the board
\* answers: each call of _make_request sends its request finitely often
\* and then returns or raises.
C30_RunEnds ==
    \A u \in Users : running_jobs[u] ~> ~running_jobs[u]

\* C29: should_apply rejects every archived vacancy, whatever the criteria,
\* and the reason it gives is not that of any of the other filters.
C29_ArchivedRejected ==
    (filt.verdict # NoVerdict /\ filt.vacancy.archived)
       => /\ ~filt.verdict.should_apply
          /\ filt.verdict.reason = "Vacancy is archived"

\* C31: not counting the sends answered with status 429, one call of
\* _make_request sends at most 1 + max_retries requests, whatever mixture of
\* DDoS pages, gateway errors, other 5xx and network failures answers them.
C31_AtMostFourSends == http.counted <= 1 + max_retries

\* A call that was answered in more than one way, also with 429, and that
\* used up all its sends.
C31_Witness ==
    /\ http.pc = "idle"
    /\ http.only = Mixed
    /\ http.counted = 1 + max_retries
    /\ http.sends > http.counted

\* C32: consecutive_errors is the number of errors since the last posting
\* that did not end in error: a skipped result sets it back to zero, as a
\* success does, so that the breaker opens only on three errors in a row.
C32_SkipBreaksStreak ==
    [][\A u \in Users :
          (/\ stream'[u].last # stream[u].last
           /\ stream'[u].last.result \in {"success", "skipped"})
             => job'[u].consecutive_errors = 0]_vars

\* C33: every posting for which the loop produces a result, whether
\* applied, error or skipped for any reason, is in the cache of processed
\* postings once its iteration is over, and so when the run ends. Stated
\* for the iterations in which the write to the cache does not raise.
C33_ResultsCached ==
    [][\A u \in Users :
          (/\ stream'[u].last # stream[u].last
           /\ stream'[u].last.result # "none"
           /\ stream'[u].raised = "none")
             => job[u].vacs[stream'[u].last.current] \in cache']_vars

\* C34: in every event that bulk_apply_stream emits, current <= total.
C34_CurrentWithinTotal ==
    \A u \in Users :
        stream[u].last.event # "none"
           => stream[u].last.current <= stream[u].last.total

\* C35: a run started by trigger_manual_run(user_id, max_applications)
\* makes at most max_applications successful submissions, whatever
\* max_applications_per_run the settings of the user hold.
C35_ManualLimitRespected ==
    \A u \in Users :
        manual[u].status = "started"
           => Cardinality(accepted) <= manual[u].max_applications

\* C36: whenever trigger_manual_run has returned "started", a row of the
\* run history is created for a run of that user.
C36_StartedRunFollows ==
    \A u \in Users :
        manual[u].status = "started" ~> \E i \in DOMAIN runs : runs[i].user = u

\* C37: for every stored schedule_days, the weekdays of the installed cron
\* trigger of a user are the weekdays on which _check_and_run_missed_job
\* may create a catch-up run.
C37_SameWeekdays ==
    \A u \in Users :
        \A t \in trigger[u] :
            t.day_of_week = scheduled_days(settings[u].schedule.days)

\* C38: the cancel flag of a user is true only while a run of that user is
\* in flight, and every run starts with the flag false, so that a cancel
\* request never reaches a later run.
C38_CancelOnlyWhileRunning ==
    [][\A u \in Users :
          /\ cancel_requested'[u] => inflight'[u] > 0
          /\ (running_jobs'[u] /\ ~running_jobs[u]) => ~cancel_requested'[u]]_vars

\* A run that was asked to cancel has ended with the cancelled event and
\* has left both flags false.
C38_Witness ==
    \E u \in Users : /\ stream[u].last.event = "cancelled"
                     /\ stream[u].exit # "none"
                     /\ inflight[u] = 0
                     /\ ~running_jobs[u]
                     /\ ~cancel_requested[u]

\* The rows of the run history that belong to runs of user u.
RunsOf(u) == {i \in DOMAIN runs : runs[i].user = u}

\* C40: whenever no run of a user is in flight, so that all the runs of the
\* user have ended, total_applications of the user is the sum of
\* applications_sent over these runs, whatever way each of them ended.
C40_TotalIsSumOfSent ==
    \A u \in Users :
        inflight[u] = 0
           => settings[u].total_applications
                 = Sum([i \in RunsOf(u) |-> runs[i].applications_sent])

\* ------------------------------------------ bulk_apply and bulk_apply_stream
\* One request handled by both procedures.  The collaborators answer the
\* same to both: get_applied_vacancy_ids returns already_applied_ids,
\* _search_vacancies_for_bulk returns vacancies, filter_engine.should_apply
\* rejects the postings in rejected, apply_to_single_vacancy returns
\* status[v] for posting v, and cancel_check() answers False to its first
\* cancel_after calls and True from then on.  No collaborator raises.
ResponseStatuses == {"success", "error", "skipped"}

\* The request with the answers it will get.
BulkCall(n, a, r, st, mx, c) ==
    [NoBulk EXCEPT !.pc = "called", !.vacancies = SeqOf(1..n),
                   !.already_applied_ids = a, !.rejected = r, !.status = st,
                   !.max_applications = mx, !.cancel_after = c]

\* cancel_check() at its call-th call.
cancel_check(in, call) == call > in.cancel_after

\* A limit test of bulk_apply that lets one more application through.
AppliedEnoughOffByOne(applied_count, max_applications) ==
    applied_count > max_applications

\* bulk_apply: `if applied_count >= max_applications: break`
AppliedEnough(applied_count, max_applications) ==
    applied_count >= max_applications

\* bulk_apply: ApplyResponse(vacancy_id=..., status=...)
ApplyResponse(vacancy_id, status) == <<vacancy_id, status>>

\* bulk_apply from the i-th element of `for vacancy in vacancies` on, with
\* its locals l (results, applied_count, consecutive_errors): the list that
\* it returns.
RECURSIVE BulkApplyLoop(_, _, _)
BulkApplyLoop(in, i, l) ==
    IF i > Len(in.vacancies) THEN l.results
    ELSE IF cancel_check(in, i) THEN l.results
    ELSE IF AppliedEnough(l.applied_count, in.max_applications) THEN l.results
    ELSE IF l.consecutive_errors >= max_consecutive_errors THEN l.results
    ELSE LET vacancy_id == in.vacancies[i]
             skipped == [l EXCEPT !.results =
                            Append(@, ApplyResponse(vacancy_id, "skipped"))]
             response == in.status[vacancy_id]
             appended == [l EXCEPT !.results =
                            Append(@, ApplyResponse(vacancy_id, response))]
         IN IF vacancy_id \in in.already_applied_ids
            THEN BulkApplyLoop(in, i + 1, skipped)
            ELSE IF vacancy_id \in in.rejected
            THEN BulkApplyLoop(in, i + 1, skipped)
            ELSE IF response = "success"
            THEN BulkApplyLoop(in, i + 1,
                    [appended EXCEPT !.applied_count = @ + 1,
                                     !.consecutive_errors = 0])
            ELSE IF response = "error"
            THEN BulkApplyLoop(in, i + 1,
                    [appended EXCEPT !.consecutive_errors = @ + 1])
            ELSE BulkApplyLoop(in, i + 1, appended)

\* The list that bulk_apply returns for the request.
BulkApplyResults(in) ==
    IF in.vacancies = <<>> THEN <<>>
    ELSE BulkApplyLoop(in, 1, [results |-> <<>>, applied_count |-> 0,
                               consecutive_errors |-> 0])

\* An event of the stream with the vacancy_id of its result (0 without one).
Yield(e, vacancy_id) == [progress |-> e, vacancy_id |-> vacancy_id]

\* bulk_apply_stream from the top of an iteration on, with its locals j and
\* the events it has yielded: all the events that it yields.
RECURSIVE StreamLoop(_, _, _)
StreamLoop(in, j, events) ==
    IF j.current = Len(j.vacs)
    THEN Append(events, Yield(Progress("complete", j, "none", TRUE), 0))
    ELSE IF cancel_check(in, j.current + 1)
    THEN Append(events, Yield(Progress("cancelled", j, "none", TRUE), 0))
    ELSE IF LimitReached(j)
    THEN Append(events, Yield(Progress("complete", j, "none", TRUE), 0))
    ELSE IF BreakerOpen(j)
    THEN Append(events, Yield(Progress("error", j, "none", TRUE), 0))
    ELSE LET j1 == [j EXCEPT !.current = @ + 1]
             v == j.vacs[j.current + 1]
             status == IF AlreadyApplied(j, v) \/ v \in in.rejected
                       THEN "skipped" ELSE in.status[v]
             j2 == Count(j1, status)
         IN StreamLoop(in, j2,
               Append(events, Yield(Progress("progress", j2, status, TRUE), v)))

\* All the events that bulk_apply_stream yields for the request.
BulkApplyEvents(in) ==
    LET j0 == [IdleJob EXCEPT !.max = in.max_applications,
                              !.total = in.max_applications]
        j == [j0 EXCEPT !.vacs = in.vacancies,
                        !.baseline = in.already_applied_ids,
                        !.total = Min(Len(in.vacancies), in.max_applications)]
        prelude == <<Yield(Progress("start", j0, "none", FALSE), 0),
                     Yield(Progress("progress", j0, "none", FALSE), 0)>>
    IN IF in.vacancies = <<>>
       THEN Append(prelude,
               Yield(Progress("complete", [j0 EXCEPT !.total = 0], "none", TRUE), 0))
       ELSE StreamLoop(in, j,
               Append(prelude, Yield(Progress("progress", j, "none", FALSE), 0)))

\* The (vacancy_id, status) outcomes attached to the result-bearing events.
RECURSIVE Outcomes(_)
Outcomes(events) ==
    IF events = <<>> THEN <<>>
    ELSE LET e == Head(events)
         IN (IF e.progress.result = "none" THEN <<>>
             ELSE <<ApplyResponse(e.vacancy_id, e.progress.result)>>)
            \o Outcomes(Tail(events))

\* `results = await service.bulk_apply(request, max_applications, ...)`
bulk_apply ==
    /\ bulk.pc = "called" /\ ~bulk.returned
    /\ bulk' = [bulk EXCEPT !.returned = TRUE, !.results = BulkApplyResults(bulk)]
    /\ UNCHANGED <<flags, schedVars, spawned, inflight, lastCall, job, stream,
                   storeVars, boardVars, stale, boots, clock, http, filt,
                   manual, faults>>

\* `async for progress in service.bulk_apply_stream(request, ...)`, drained
\* by the caller.
bulk_apply_stream ==
    /\ bulk.pc = "called" /\ ~bulk.streamed
    /\ bulk' = [bulk EXCEPT !.streamed = TRUE, !.events = BulkApplyEvents(bulk)]
    /\ UNCHANGED <<flags, schedVars, spawned, inflight, lastCall, job, stream,
                   storeVars, boardVars, stale, boots, clock, http, filt,
                   manual, faults>>

InitBulk ==
    /\ faults = 0
    /\ running_jobs = [u \in Users |-> FALSE]
    /\ cancel_requested = [u \in Users |-> FALSE]
    /\ schedUp = FALSE
    /\ startPc = "idle"
    /\ trigger = [u \in Users |-> {}]
    /\ spawned = [u \in Users |-> 0]
    /\ inflight = [u \in Users |-> 0]
    /\ lastCall = [u \in Users |-> "none"]
    /\ job = [u \in Users |-> IdleJob]
    /\ stream = [u \in Users |-> NoStream]
    /\ settings = [u \in Users |-> NoSettings]
    /\ runs = <<>>
    /\ appHist = [v \in Vacancies |-> 0]
    /\ cache = {}
    /\ negotiations = {}
    /\ accepted = {}
    /\ catalogue = {}
    /\ stale = {}
    /\ boots = 0
    /\ budget = 0
    /\ clock = [u \in Users |-> NoClock]
    /\ http = NoClient
    /\ filt = NoFilter
    /\ manual = [u \in Users |-> NoManual]
    /\ \E n \in 0..NumVacancies :
          \E a \in SUBSET (1..n), r \in SUBSET (1..n),
             st \in [1..n -> ResponseStatuses],
             mx \in 1..MaxApps, c \in 0..n :
             bulk = BulkCall(n, a, r, st, mx, c)

NextBulk == bulk_apply \/ bulk_apply_stream

SpecBulk == InitBulk /\ [][NextBulk]_vars

\* C39: for the same request, max_applications, cancel predicate and
\* collaborator answers, and no exception escaping, the list that bulk_apply
\* returns is exactly the sequence of (vacancy_id, status) outcomes attached
\* to the result-bearing events of bulk_apply_stream, in the same order.
C39_SameOutcomes ==
    (bulk.returned /\ bulk.streamed) => bulk.results = Outcomes(bulk.events)

\* Both have handled a request in which a skipped, a failed and a sent
\* application come before the limit stops the loop short of the list's end.
C39_Witness ==
    /\ bulk.returned /\ bulk.streamed
    /\ Len(bulk.results) = 3 /\ Len(bulk.vacancies) = 4
    /\ bulk.results[1][2] = "skipped" /\ bulk.results[2][2] = "error"
    /\ bulk.results[3][2] = "success"
    /\ bulk.cancel_after = 4

====
